---- MODULE Spec2Model ----
(***************************************************************************)
(* Privote desktop: the local transcription pipeline (WhisperClient and    *)
(* the "transcribe-audio" IPC handler) and the model installer             *)
(* ("download-model"), as state machines over an abstract file system.     *)
(*                                                                         *)
(* A JavaScript string is a sequence of tokens (each token a TLA+ string); *)
(* the empty sequence is "", the only falsy string.  A file-system path is *)
(* a sequence of path tokens.  An optional value (undefined or a value) is *)
(* the empty set or a singleton.                                           *)
(***************************************************************************)
EXTENDS Integers, Sequences, FiniteSets, TLC

\* ---------------------------------------------------------------- bounds
MaxRequests == 2      \* transcribe-audio requests started over a run
MaxChunks == 1        \* 'data' events per captured stream of one child
MaxTicks == 2         \* clock ticks observed while one child runs
MaxDownloads == 2     \* download-model requests started over a run
TickMs == 4           \* milliseconds of one clock tick
MaxListings == 2      \* list-available-models requests made over a run
MaxSaves == 2         \* save-settings requests made over a run
MaxFrames == 2        \* frames of a decoded capture
MaxConversions == 2   \* convertToWav calls made over a run
MaxFetches == 3       \* requests the worker serves over a run
MaxClicks == 3        \* clicks on the download button handled over a run
MaxQueries == 2       \* get-current-model requests made over a run
MaxChanges == 2       \* 'change' events of the model select handled over a run
MaxTranscriptions == 3 \* transcriptions the renderer starts over a run
MaxStarts == 3        \* calls of startRecording made over a run

\* ---------------------------------------------------------------- strings
Whitespace == {" ", "\n"}

RECURSIVE trimStart(_)
trimStart(s) ==
    IF s = <<>> THEN <<>>
    ELSE IF Head(s) \in Whitespace THEN trimStart(Tail(s)) ELSE s

RECURSIVE trimEnd(_)
trimEnd(s) ==
    IF s = <<>> THEN <<>>
    ELSE IF s[Len(s)] \in Whitespace THEN trimEnd(SubSeq(s, 1, Len(s) - 1)) ELSE s

\* String.prototype.trim
trim(s) == trimEnd(trimStart(s))

\* JavaScript truthiness of a string
Truthy(s) == s # <<>>

\* a || b on optional strings (undefined and "" are falsy)
OptTruthy(o) == \E s \in o : Truthy(s)
JsOr(a, b) == IF OptTruthy(a) THEN a ELSE b
TheValue(o) == CHOOSE s \in o : TRUE

\* s contains t as a contiguous run of tokens
Contains(s, t) ==
    \E i \in 1..(Len(s) + 1) :
        /\ i + Len(t) - 1 <= Len(s)
        /\ SubSeq(s, i, i + Len(t) - 1) = t

\* ---------------------------------------------------------------- paths
Roots == {"appRoot", "process.resourcesPath", "userData", "cwd", "/usr/local/bin"}
Cwd == <<"cwd">>

\* what the fs module does with a relative path
Resolve(p) == IF p # <<>> /\ Head(p) \in Roots THEN p ELSE Cwd \o p

IsExt(t) == t \in {".wav", ".mp3", ".json", ".txt", ".bin"}

\* path.extname: the extension of the last path token, or ""
extname(p) == IF p # <<>> /\ IsExt(p[Len(p)]) THEN <<p[Len(p)]>> ELSE <<>>

\* String.prototype.replace(pattern, by) with a string pattern: the first
\* occurrence only; the empty pattern matches at position 0
RECURSIVE replaceFirst(_, _, _)
replaceFirst(p, pat, by) ==
    IF pat = <<>> THEN by \o p
    ELSE IF p = <<>> THEN <<>>
    ELSE IF <<Head(p)>> = pat THEN by \o Tail(p)
    ELSE <<Head(p)>> \o replaceFirst(Tail(p), pat, by)

jsonPath(audioFilePath) == replaceFirst(audioFilePath, extname(audioFilePath), <<".json">>)
txtPath(audioFilePath) == replaceFirst(audioFilePath, extname(audioFilePath), <<".txt">>)

\* ---------------------------------------------------------------- sidecars
\* The content of a structured (.json) sidecar, by what JSON.parse and the
\* property reads make of it:
\*   absent   no file;            empty    a file of length 0;
\*   garbage  JSON.parse throws;  null     parses to null (property read throws);
\*   object   parses to an object with optional transcription, text, segments.
NoJson == [kind |-> "absent", transcription |-> {}, text |-> {}, segments |-> {}]
EmptyJson == [kind |-> "empty", transcription |-> {}, text |-> {}, segments |-> {}]
GarbageJson == [kind |-> "garbage", transcription |-> {}, text |-> {}, segments |-> {}]
NullJson == [kind |-> "null", transcription |-> {}, text |-> {}, segments |-> {}]

Segment == [startTime |-> 0, endTime |-> 1, text |-> <<"hi">>]

JsonObjects ==
    [kind : {"object"},
     transcription : {{}, {<<>>}, {<<"hi">>}},
     text : {{}, {<<" ">>}, {<<"yo">>}},
     segments : {{}, {<<Segment>>}}]

\* what an engine run may leave at the structured sidecar path
JsonWrites == {EmptyJson, GarbageJson, NullJson} \cup JsonObjects

\* what an engine run may leave at the plain-text sidecar path
TxtWrites == {<<" ">>, <<" ", "tx", "\n">>}

\* chunks of the child's stdout and stderr
StdoutChunks == {<<"\n">>, <<"out", "\n">>}
StderrChunks == {<<"err">>}

\* the code the 'close' event carries for a child that started: an exit code,
\* or null when a signal ended it
ExitCodes == {"0", "1", "null"}
\* the code the 'close' event carries after a failed spawn (negative errno)
SpawnErrno == "-13"

\* ---------------------------------------------------------------- models
DefaultModel == "ggml-base.en.bin"

\* download-model's modelUrls keys, list-available-models' descriptors
Catalog ==
    <<"ggml-base.en.bin", "ggml-tiny.en.bin", "ggml-small.en.bin",
      "ggml-medium.en.bin", "ggml-large-v2.bin">>
CatalogNames == {Catalog[i] : i \in 1..Len(Catalog)}

\* path.join(__dirname, "..", "models") in the main process
modelsDir == <<"appRoot", "models">>

\* resourcesPath of the WhisperClient constructor
resourcesPath(packaged) ==
    IF packaged THEN <<"process.resourcesPath">> ELSE <<"appRoot">>

\* model names a request may carry: catalog names and one that is not
UnknownModel == "custom.bin"
RequestNames == {"ggml-base.en.bin", "ggml-tiny.en.bin", UnknownModel}

\* a file in the models directory whose name differs from a catalog name in
\* case only
UpperCaseModel == "GGML-TINY.EN.BIN"

\* the names the files of the models directory may have
DirNames == RequestNames \cup {UpperCaseModel}

ModelFilePaths ==
    {modelsDir \o <<n>> : n \in DirNames}
        \cup {Resolve(<<n>>) : n \in RequestNames}
        \cup {resourcesPath(TRUE) \o <<"models", DefaultModel>>}

AudioPaths == {<<"userData", "recordings", "rec", ".wav">>}
SidecarPaths == {jsonPath(a) : a \in AudioPaths} \cup {txtPath(a) : a \in AudioPaths}

\* files the open dialog of load-audio-file may hand back: its filter lets
\* through wav, mp3, m4a, ogg and webm, from any folder
UploadPaths == {<<"home", "talk", ".wav">>, <<"home", "talk", ".mp3">>}

ExePaths ==
    {resourcesPath(FALSE) \o <<"whisper-cli">>,
     resourcesPath(TRUE) \o <<"whisper-cli">>,
     <<"/usr/local/bin", "whisper-cli">>}

\* settings.json: absent, unparseable, or an object with an optional whisperModel
NoSettings == [kind |-> "absent", whisperModel |-> {}]
GarbageSettings == [kind |-> "garbage", whisperModel |-> {}]
SettingsObject(m) == [kind |-> "object", whisperModel |-> m]

\* ---------------------------------------------------------------- state
Calls == {"t1", "t2"}
Slots == {"d1", "d2"}

VARIABLES
    isPackaged,     \* app.isPackaged
    envWhisperPath, \* process.env.WHISPER_CPP_PATH (optional path)
    audioFiles,     \* the audio files that exist
    exeFiles,       \* the engine executables that exist
    modelFiles,     \* model file path -> "absent" | "partial" | "complete"
    modelsDirExists, \* whether the models directory exists
    settingsFile,   \* userData/settings.json
    sidecarJson,    \* structured sidecar path -> content
    sidecarTxt,     \* plain-text sidecar path -> optional string
    call,           \* transcribe-audio request -> its state
    requests,       \* transcribe-audio requests started so far
    download,       \* download-model request -> its state
    fetches,        \* model name -> fetch() calls made for its URL
    downloads,      \* download-model requests started so far
    listing,        \* the last reply of list-available-models
    listings,       \* list-available-models requests made so far
    saved,          \* what the latest save-settings request wrote, if it succeeded
    saves,          \* save-settings requests made so far
    conv,           \* the convertToWav call of the renderer
    conversions,    \* convertToWav calls made so far
    API_KEY,        \* the worker's env.API_KEY (optional string)
    meetings,       \* the ids of the rows of the worker's meetings table
    response,       \* the worker's last response, with its request
    served,         \* requests the worker has served so far
    downloadBtn,    \* the settings page's download button
    click,          \* click on the download button -> the state of its handler
    clicks,         \* clicks handled so far
    current,        \* the last reply of get-current-model
    queries,        \* get-current-model requests made so far
    change,         \* the 'change' handler of the model select
    changes,        \* 'change' events handled so far
    currentTranscript, \* state.currentTranscript, by its text (optional)
    shown,          \* textContent of #transcript-content once set (optional)
    job,            \* renderer handler -> its transcription in progress
    controlsDisabled, \* between disableRecordingControls and enableRecordingControls
    transcriptions, \* transcriptions the renderer has started so far
    isRecording,    \* state.isRecording
    isPaused,       \* state.isPaused (undefined at first, read as false)
    mediaRecorder,  \* state.mediaRecorder: the recorder it refers to (optional)
    rec,            \* the calls of startRecording, with their stream and recorder
    confirming      \* the confirmation dialog of the record button is open

listVars == <<listing, listings>>
saveVars == <<saved, saves>>
audioVars == <<conv, conversions>>
workerVars == <<API_KEY, meetings, response, served>>
uiVars == <<downloadBtn, click, clicks>>
currentVars == <<current, queries>>
selVars == <<change, changes>>
panelVars == <<currentTranscript, shown, job, controlsDisabled, transcriptions>>
recVars == <<isRecording, isPaused, mediaRecorder, rec, confirming>>
pageVars == <<selVars, panelVars, recVars>>
otherVars == <<listVars, saveVars, audioVars, workerVars, uiVars, currentVars, pageVars>>

vars ==
    <<isPackaged, envWhisperPath, audioFiles, exeFiles, modelFiles, modelsDirExists,
      settingsFile, sidecarJson, sidecarTxt, call, requests, download, fetches, downloads,
      otherVars>>

fsVars ==
    <<isPackaged, envWhisperPath, audioFiles, exeFiles, modelFiles, modelsDirExists,
      settingsFile>>
trVars == <<sidecarJson, sidecarTxt, call, requests>>
dlVars == <<download, fetches, downloads>>

\* fs.existsSync
existsAudio(p) == p \in audioFiles
existsExe(p) == p \in exeFiles
existsModel(p) ==
    /\ Resolve(p) \in DOMAIN modelFiles
    /\ modelFiles[Resolve(p)] # "absent"
existsJson(p) == p \in DOMAIN sidecarJson /\ sidecarJson[p].kind # "absent"
existsTxt(p) == p \in DOMAIN sidecarTxt /\ sidecarTxt[p] # {}

\* ---------------------------------------------------------------- results
Success(transcript, language, duration, segments) ==
    [success |-> TRUE, transcript |-> transcript, language |-> language,
     duration |-> duration, segments |-> segments]
Failure(message) == [success |-> FALSE, error |-> message]
NoResult == [pending |-> TRUE]

\* error.message of the errors the client constructs or receives
AudioNotFoundMessage(audioFilePath) == <<"Audio file not found: ">> \o audioFilePath
ModelNotFoundMessage(modelPath) ==
    <<"Whisper model not found at ">> \o modelPath
        \o <<". Please download a model first.\n",
             "Download from: https://huggingface.co/ggerganov/whisper.cpp/tree/main">>
\* the exit-code message without the captured stdout
ExitCodeMessage_noStdout(code, stderr, stdout) ==
    <<"Whisper process exited with code ", code, "\nStderr: ">> \o stderr
ExitCodeMessage(code, stderr, stdout) ==
    <<"Whisper process exited with code ", code, "\nStderr: ">> \o stderr
        \o <<"\nStdout: ">> \o stdout
NoTranscriptMessage ==
    <<"No transcript generated. Audio file may be invalid or incompatible.\n",
      "Size: ", "audioStats.size", " bytes">>
StatMessage(audioFilePath) ==
    <<"ENOENT: no such file or directory, stat ">> \o audioFilePath
ParseFailedMessage(inner) == <<"Failed to parse whisper output: ">> \o inner
SpawnFailedMessage(whisperPath) ==
    <<"Failed to start Whisper process at ">> \o whisperPath
        \o <<": ", "spawn EACCES", "\n",
             "Make sure whisper.cpp is built and the path is correct.">>
SpawnThrewMessage == <<"spawn ENOMEM">>

generatePlaceholderTranscript ==
    <<"This is a placeholder transcript generated by Privote.", "\n", "\n",
      "To enable real transcription, you need to integrate Whisper.cpp:">>

\* ---------------------------------------------------------------- client
\* new WhisperClient(options): optModelPath and optWhisperPath are optional paths
WhisperClient(optModelPath, optWhisperPath) ==
    [modelPath |->
        IF OptTruthy(optModelPath) THEN TheValue(optModelPath)
        ELSE resourcesPath(isPackaged) \o <<"models", DefaultModel>>,
     whisperPath |->
        IF OptTruthy(optWhisperPath) THEN TheValue(optWhisperPath)
        ELSE IF OptTruthy(envWhisperPath) THEN TheValue(envWhisperPath)
        ELSE resourcesPath(isPackaged) \o <<"whisper-cli">>,
     language |-> "en"]

NoClient == [modelPath |-> <<>>, whisperPath |-> <<>>, language |-> "en"]

\* the module-level client of main.js, built once when the main process starts
whisperClient == WhisperClient({}, {})

\* initializeWhisperClient: the model name of the settings file as it is now
\* (or the default), handed to the client as its modelPath; an unparseable
\* settings file falls back to the default client
initializeWhisperClient ==
    IF settingsFile.kind = "garbage" THEN WhisperClient({}, {})
    ELSE LET whisperModel ==
                IF settingsFile.kind = "object"
                       /\ settingsFile.whisperModel # {}
                       /\ TheValue(settingsFile.whisperModel) # ""
                THEN TheValue(settingsFile.whisperModel)
                ELSE DefaultModel
         IN WhisperClient({<<whisperModel>>}, {})

\* validate without the audio check
validate_noAudioCheck(client, audioFilePath) ==
    IF ~existsModel(client.modelPath)
        THEN Failure(ModelNotFoundMessage(client.modelPath))
    ELSE IF ~existsExe(client.whisperPath)
        THEN Success(generatePlaceholderTranscript, client.language, 0, <<>>)
    ELSE NoResult

\* validate with a missing engine executable left to spawn
validate_noEngineCheck(client, audioFilePath) ==
    IF ~existsAudio(audioFilePath)
        THEN Failure(AudioNotFoundMessage(audioFilePath))
    ELSE IF ~existsModel(client.modelPath)
        THEN Failure(ModelNotFoundMessage(client.modelPath))
    ELSE NoResult

\* validate with a missing model file left to the engine
validate_noModelCheck(client, audioFilePath) ==
    IF ~existsAudio(audioFilePath)
        THEN Failure(AudioNotFoundMessage(audioFilePath))
    ELSE IF ~existsExe(client.whisperPath)
        THEN Success(generatePlaceholderTranscript, client.language, 0, <<>>)
    ELSE NoResult

\* validate with the engine check made before the model check
validate_engineFirst(client, audioFilePath) ==
    IF ~existsAudio(audioFilePath)
        THEN Failure(AudioNotFoundMessage(audioFilePath))
    ELSE IF ~existsExe(client.whisperPath)
        THEN Success(generatePlaceholderTranscript, client.language, 0, <<>>)
    ELSE IF ~existsModel(client.modelPath)
        THEN Failure(ModelNotFoundMessage(client.modelPath))
    ELSE NoResult

\* WhisperClient.transcribe up to the call of _transcribeWithCLI: the result it
\* returns without spawning, or NoResult when the engine is to be run
validate(client, audioFilePath) ==
    IF ~existsAudio(audioFilePath)
        THEN Failure(AudioNotFoundMessage(audioFilePath))
    ELSE IF ~existsModel(client.modelPath)
        THEN Failure(ModelNotFoundMessage(client.modelPath))
    ELSE IF ~existsExe(client.whisperPath)
        THEN Success(generatePlaceholderTranscript, client.language, 0, <<>>)
    ELSE NoResult

\* transcribe without its catch: a rejection leaves transcribe as a throw
transcribeReturn_noCatch(outcome) ==
    IF outcome.kind = "resolve" THEN outcome.value
    ELSE [threw |-> TRUE, message |-> outcome.message]

\* the promise of _transcribeWithCLI as transcribe's try/catch turns it into a
\* return value: a resolution is returned, a rejection becomes a failure result
Resolved(value) == [kind |-> "resolve", value |-> value]
Rejected(message) == [kind |-> "reject", message |-> message]
transcribeReturn(outcome) ==
    IF outcome.kind = "resolve" THEN outcome.value ELSE Failure(outcome.message)

\* the reply of ipcMain.handle("transcribe-audio") for a result of transcribe
transcribeAudioReply(result) ==
    IF "success" \notin DOMAIN result
        THEN Failure(result.message)
    ELSE IF result.success
        THEN [success |-> TRUE, transcript |-> result.transcript,
              duration |-> result.duration, language |-> result.language]
    ELSE Failure(IF Truthy(result.error) THEN result.error
                 ELSE <<"Transcription failed">>)

\* ((Date.now() - startTime) / 1000).toFixed(2), in hundredths of a second
toFixed2(ms) == (ms + 5) \div 10

\* ---------------------------------------------------------------- output parser
\* the structured sidecar step reporting one segment when it parsed nothing
parseJson_inventSegment(doc) ==
    IF doc.kind = "object"
    THEN [transcript |-> TheValue(JsOr(JsOr(doc.transcription, doc.text), {<<>>})),
          segments |-> IF doc.segments = {} THEN <<>> ELSE TheValue(doc.segments)]
    ELSE [transcript |-> <<>>, segments |-> <<Segment>>]

\* the structured sidecar step of the 'close' handler (lines 210-224)
parseJson(doc) ==
    IF doc.kind = "object"
    THEN [transcript |-> TheValue(JsOr(JsOr(doc.transcription, doc.text), {<<>>})),
          segments |-> IF doc.segments = {} THEN <<>> ELSE TheValue(doc.segments)]
    ELSE [transcript |-> <<>>, segments |-> <<>>]

\* the plain-text step without its !transcript guard
parseTxt_noGuard(transcript, txt) ==
    IF txt # {} THEN trim(TheValue(txt)) ELSE transcript

\* the plain-text sidecar step (lines 226-230)
parseTxt(transcript, txt) ==
    IF ~Truthy(transcript) /\ txt # {} THEN trim(TheValue(txt)) ELSE transcript

\* the stdout step (lines 232-236)
parseStdout(transcript, stdout) ==
    IF ~Truthy(transcript) /\ Truthy(stdout) THEN trim(stdout) ELSE transcript

\* the fallback chain as a whole
resolveTranscript(doc, txt, stdout) ==
    LET j == parseJson(doc)
    IN [transcript |-> parseStdout(parseTxt(j.transcript, txt), stdout),
        segments |-> j.segments]

\* the sidecar files the chain touches (existsSync or readFileSync)
probedSidecars(doc) ==
    IF Truthy(parseJson(doc).transcript) THEN {"json"} ELSE {"json", "txt"}

\* the 'close' handler without its empty-transcript check
onClose_acceptEmpty(c, code) ==
    LET audioFilePath == call[c].audio
        r == resolveTranscript(sidecarJson[jsonPath(audioFilePath)],
                               sidecarTxt[txtPath(audioFilePath)], call[c].stdout)
    IN IF code # "0"
           THEN Rejected(ExitCodeMessage(code, call[c].stderr, call[c].stdout))
       ELSE IF ~existsAudio(audioFilePath)
           THEN Rejected(ParseFailedMessage(StatMessage(audioFilePath)))
       ELSE Resolved(Success(r.transcript, call[c].client.language,
                             toFixed2(call[c].ms), r.segments))

\* the 'close' handler without fs.statSync(audioFilePath)
onClose_noStat(c, code) ==
    LET audioFilePath == call[c].audio
        r == resolveTranscript(sidecarJson[jsonPath(audioFilePath)],
                               sidecarTxt[txtPath(audioFilePath)], call[c].stdout)
    IN IF code # "0"
           THEN Rejected(ExitCodeMessage(code, call[c].stderr, call[c].stdout))
       ELSE IF ~Truthy(r.transcript)
           THEN Rejected(NoTranscriptMessage)
       ELSE Resolved(Success(r.transcript, call[c].client.language,
                             toFixed2(call[c].ms), r.segments))

\* whisperProcess.on("close"): how the handler settles the promise
onClose(c, code) ==
    LET audioFilePath == call[c].audio
        duration == toFixed2(call[c].ms)
        doc == sidecarJson[jsonPath(audioFilePath)]
        txt == sidecarTxt[txtPath(audioFilePath)]
        r == resolveTranscript(doc, txt, call[c].stdout)
    IN IF code # "0"
           THEN Rejected(ExitCodeMessage(code, call[c].stderr, call[c].stdout))
       ELSE IF ~existsAudio(audioFilePath)
           THEN Rejected(ParseFailedMessage(StatMessage(audioFilePath)))
       ELSE IF ~Truthy(r.transcript)
           THEN Rejected(NoTranscriptMessage)
       ELSE Resolved(Success(r.transcript, call[c].client.language, duration, r.segments))

\* whether the handler gets to the fallback chain for that code
chainRuns(c, code) == code = "0" /\ existsAudio(call[c].audio)

\* the sidecars the handler touches for that code
onCloseProbes(c, code) ==
    IF chainRuns(c, code) THEN probedSidecars(sidecarJson[jsonPath(call[c].audio)])
    ELSE {}

\* ---------------------------------------------------------------- transcribe-audio
IdleCall ==
    [pc |-> "idle", audio |-> <<>>, client |-> NoClient, child |-> "none",
     stdout |-> <<>>, stderr |-> <<>>, outN |-> 0, errN |-> 0, ms |-> 0,
     result |-> NoResult, reply |-> NoResult,
     seen |-> [audio |-> FALSE, model |-> FALSE, exe |-> FALSE],
                       \* what existsSync answered during validation
     spawnCalls |-> 0, \* calls of spawn made for the request
     args |-> {},      \* the arguments of that spawn call
     closeCode |-> {}, \* the code of the child's 'close' event, once emitted
     probed |-> {},    \* the sidecars the 'close' handler touched
     chain |-> {},     \* the transcript the fallback chain ended with, if it ran
     parsedAt |-> {},  \* Date.now() - startTime when the chain had finished
     wrote |-> {},     \* the sidecars the child of this request has written
     returns |-> 0]    \* results the request has returned to its caller

\* the request has returned and no event of its child is still to come
CallFree(c) ==
    /\ call[c].pc \in {"idle", "returned"}
    /\ call[c].child \in {"none", "closed"}

Returned(c, result) ==
    [call[c] EXCEPT !.pc = "returned", !.result = result,
                    !.reply = transcribeAudioReply(result), !.returns = @ + 1]

\* the engine's arguments (lines 112-123): model, audio file, language, threads
spawnArgs(client, audioFilePath) ==
    [m |-> client.modelPath, f |-> audioFilePath, l |-> client.language, t |-> "4"]

\* whisperClient.transcribe(audioFilePath) in the handler, from the request to
\* the first await that waits for the child: the files are validated and the
\* engine is spawned (spawn may start the child, fail asynchronously, or throw)
startTranscribe(c, client, audioFilePath, spawnOutcome) ==
    /\ CallFree(c)
    /\ requests < MaxRequests
    /\ requests' = requests + 1
    /\ LET early == validate(client, audioFilePath)
           fresh == [IdleCall EXCEPT
                        !.audio = audioFilePath, !.client = client,
                        !.seen = [audio |-> existsAudio(audioFilePath),
                                  model |-> existsModel(client.modelPath),
                                  exe |-> existsExe(client.whisperPath)]]
       IN call' = [call EXCEPT ![c] =
            IF early # NoResult
                THEN [fresh EXCEPT !.pc = "returned", !.result = early,
                                   !.reply = transcribeAudioReply(early),
                                   !.returns = 1]
            ELSE IF spawnOutcome = "threw"
                THEN LET r == transcribeReturn(Rejected(SpawnThrewMessage))
                     IN [fresh EXCEPT !.pc = "returned", !.result = r,
                                      !.reply = transcribeAudioReply(r),
                                      !.returns = 1,
                                      !.spawnCalls = 1,
                                      !.args = {spawnArgs(client, audioFilePath)}]
            ELSE [fresh EXCEPT !.pc = "awaiting", !.spawnCalls = 1,
                               !.args = {spawnArgs(client, audioFilePath)},
                               !.child = IF spawnOutcome = "started"
                                         THEN "running" ELSE "spawnFailed"]]
    /\ UNCHANGED <<fsVars, sidecarJson, sidecarTxt, download, fetches, downloads, otherVars>>

\* ipcMain.handle("transcribe-audio") with the client built for the request
\* from the settings as they are now
TranscribeAudio(c, audioFilePath, spawnOutcome) ==
    startTranscribe(c, initializeWhisperClient, audioFilePath, spawnOutcome)

\* ipcMain.handle("transcribe-audio") of main.js, with the module-level client
TranscribeAudioMain(c, audioFilePath, spawnOutcome) ==
    startTranscribe(c, whisperClient, audioFilePath, spawnOutcome)

\* the clock with a deadline: the call is failed when the last tick passes
Tick_deadline(c) ==
    /\ call[c].child = "running"
    /\ call[c].ms < MaxTicks * TickMs
    /\ call' = [call EXCEPT ![c] =
            IF call[c].ms + TickMs >= MaxTicks * TickMs /\ call[c].pc = "awaiting"
            THEN [Returned(c, Failure(<<"Transcription timed out">>))
                    EXCEPT !.ms = @ + TickMs]
            ELSE [@ EXCEPT !.ms = @ + TickMs]]
    /\ UNCHANGED <<fsVars, sidecarJson, sidecarTxt, requests, download, fetches, downloads, otherVars>>

\* Date.now() advances while the child runs
Tick(c) ==
    /\ call[c].child = "running"
    /\ call[c].ms < MaxTicks * TickMs
    /\ call' = [call EXCEPT ![c].ms = @ + TickMs]
    /\ UNCHANGED <<fsVars, sidecarJson, sidecarTxt, requests, download, fetches, downloads, otherVars>>

\* whisperProcess.stdout.on("data")
StdoutData(c, chunk) ==
    /\ call[c].child = "running"
    /\ call[c].outN < MaxChunks
    /\ call' = [call EXCEPT ![c].stdout = @ \o chunk, ![c].outN = @ + 1]
    /\ UNCHANGED <<fsVars, sidecarJson, sidecarTxt, requests, download, fetches, downloads, otherVars>>

\* whisperProcess.stderr.on("data")
StderrData(c, chunk) ==
    /\ call[c].child = "running"
    /\ call[c].errN < MaxChunks
    /\ call' = [call EXCEPT ![c].stderr = @ \o chunk, ![c].errN = @ + 1]
    /\ UNCHANGED <<fsVars, sidecarJson, sidecarTxt, requests, download, fetches, downloads, otherVars>>

\* the engine, run with --output-json, leaves a structured sidecar
EngineWriteJson(c, doc) ==
    /\ call[c].child = "running"
    /\ sidecarJson' = [sidecarJson EXCEPT ![jsonPath(call[c].audio)] = doc]
    /\ call' = [call EXCEPT ![c].wrote = @ \cup {"json"}]
    /\ UNCHANGED <<fsVars, sidecarTxt, requests, download, fetches, downloads, otherVars>>

\* the engine, run with --output-txt, leaves a plain-text sidecar
EngineWriteTxt(c, text) ==
    /\ call[c].child = "running"
    /\ sidecarTxt' = [sidecarTxt EXCEPT ![txtPath(call[c].audio)] = {text}]
    /\ call' = [call EXCEPT ![c].wrote = @ \cup {"txt"}]
    /\ UNCHANGED <<fsVars, sidecarJson, requests, download, fetches, downloads, otherVars>>

\* a promise whose every settlement takes effect
Settle_last(c, outcome) == Returned(c, transcribeReturn(outcome))

\* settling the promise: only the first settlement counts, and transcribe and
\* the IPC handler then run to their return
Settle(c, outcome) ==
    IF call[c].pc = "awaiting" THEN Returned(c, transcribeReturn(outcome)) ELSE call[c]

\* whisperProcess.on("error"): the spawn failed
ChildError(c) ==
    /\ call[c].child = "spawnFailed"
    /\ call' = [call EXCEPT ![c] =
            [Settle(c, Rejected(SpawnFailedMessage(call[c].client.whisperPath)))
                EXCEPT !.child = "errored"]]
    /\ UNCHANGED <<fsVars, sidecarJson, sidecarTxt, requests, download, fetches, downloads, otherVars>>

\* the 'close' handler removing the audio file once it has settled the promise
ChildClose_cleanup(c, code) ==
    /\ \/ call[c].child = "running" /\ code \in ExitCodes
       \/ call[c].child = "errored" /\ code = SpawnErrno
    /\ call' = [call EXCEPT ![c] =
            [Settle(c, onClose(c, code)) EXCEPT !.child = "closed", !.closeCode = {code}]]
    /\ audioFiles' = audioFiles \ {call[c].audio}
    /\ UNCHANGED <<isPackaged, envWhisperPath, exeFiles, modelFiles, modelsDirExists,
                   settingsFile, sidecarJson, sidecarTxt, requests, download, fetches,
                   downloads, otherVars>>

\* the time the reads and the parsing of the fallback chain may take
ParseTimes == {0, TickMs}

\* whisperProcess.on("close"): after the exit of a child that started, or after
\* the 'error' event of one that did not.  The duration is computed when the
\* handler is entered; the clock goes on while the chain reads and parses.
ChildClose(c, code) ==
    /\ \/ call[c].child = "running" /\ code \in ExitCodes
       \/ call[c].child = "errored" /\ code = SpawnErrno
    /\ \E parseMs \in ParseTimes :
        call' = [call EXCEPT ![c] =
            [Settle(c, onClose(c, code))
                EXCEPT !.child = "closed",
                       !.closeCode = {code},
                       !.probed = onCloseProbes(c, code),
                       !.chain =
                            IF chainRuns(c, code)
                            THEN {resolveTranscript(
                                    sidecarJson[jsonPath(call[c].audio)],
                                    sidecarTxt[txtPath(call[c].audio)],
                                    call[c].stdout).transcript}
                            ELSE {},
                       !.parsedAt =
                            IF chainRuns(c, code) THEN {call[c].ms + parseMs} ELSE {}]]
    /\ UNCHANGED <<fsVars, sidecarJson, sidecarTxt, requests, download, fetches, downloads, otherVars>>

\* ipcMain.handle("delete-recording")
DeleteRecording(filepath) ==
    /\ existsAudio(filepath)
    /\ audioFiles' = audioFiles \ {filepath}
    /\ UNCHANGED <<isPackaged, envWhisperPath, exeFiles, modelFiles, modelsDirExists,
                   settingsFile, sidecarJson, sidecarTxt, call, requests, download, fetches, downloads, otherVars>>

\* ---------------------------------------------------------------- save-settings
\* the settings objects a request may carry, by their whisperModel
SettingsInputs == {{}, {""}, {"ggml-base.en.bin"}, {"ggml-tiny.en.bin"}}

NothingSaved == [done |-> FALSE, whisperModel |-> {}]

\* ipcMain.handle("save-settings"): JSON.stringify keeps a string property as it
\* is and leaves an undefined one out; fs.writeFileSync may succeed, fail before
\* the file is touched, or fail part-way and leave a truncated text
SaveSettings(whisperModel, outcome) ==
    /\ saves < MaxSaves
    /\ saves' = saves + 1
    /\ settingsFile' =
            IF outcome = "written" THEN SettingsObject(whisperModel)
            ELSE IF outcome = "partial" THEN GarbageSettings
            ELSE settingsFile
    /\ saved' = IF outcome = "written"
                THEN [done |-> TRUE, whisperModel |-> whisperModel]
                ELSE NothingSaved
    /\ UNCHANGED <<isPackaged, envWhisperPath, audioFiles, exeFiles, modelFiles,
                   modelsDirExists, trVars, dlVars, listVars, audioVars, workerVars,
                   uiVars, currentVars, pageVars>>

\* ---------------------------------------------------------------- download-model
IdleDownload ==
    [pc |-> "idle", modelName |-> "", reply |-> NoResult,
     existed |-> FALSE,  \* the target file existed when the request was made
     fetched |-> FALSE,  \* the request called fetch
     alone |-> TRUE,     \* no other download-model request was in flight at its start
     order |-> 0,        \* its place among the requests made
     wrote |-> FALSE]    \* its writeFileSync put bytes into the target file

InFlight(d) == download[d].pc \in {"fetching", "reading"}

\* modelUrls[modelName]: the optional URL of a model name
modelUrls(modelName) ==
    IF modelName \in CatalogNames
    THEN {<<"https://huggingface.co/ggerganov/whisper.cpp/resolve/main/", modelName>>}
    ELSE {}

AlreadyExists == [success |-> TRUE, message |-> <<"Model already exists">>]
Downloaded(modelName) ==
    [success |-> TRUE, message |-> <<"Model ", modelName, " downloaded successfully">>]
UnknownModelMessage(modelName) == <<"Unknown model: ", modelName>>

\* the entry of the handler without the existence check
downloadModelEntry_noExistsCheck(modelName) ==
    IF modelUrls(modelName) = {} THEN Failure(UnknownModelMessage(modelName))
    ELSE NoResult

\* the handler up to its first await: the reply it returns at once, or NoResult
\* when it goes on to fetch
downloadModelEntry(modelName) ==
    IF existsModel(modelsDir \o <<modelName>>) THEN AlreadyExists
    ELSE IF modelUrls(modelName) = {} THEN Failure(UnknownModelMessage(modelName))
    ELSE NoResult

\* ipcMain.handle("download-model"), from the request to await fetch(modelUrl)
DownloadModel(d, modelName) ==
    /\ ~InFlight(d)
    /\ downloads < MaxDownloads
    /\ downloads' = downloads + 1
    /\ modelsDirExists' = TRUE
    /\ LET entry == downloadModelEntry(modelName)
           fresh == [IdleDownload EXCEPT
                        !.modelName = modelName,
                        !.existed = existsModel(modelsDir \o <<modelName>>),
                        !.alone = \A e \in Slots : ~InFlight(e),
                        !.order = downloads + 1]
       IN /\ download' = [download EXCEPT ![d] =
                IF entry # NoResult
                THEN [fresh EXCEPT !.pc = "returned", !.reply = entry]
                ELSE [fresh EXCEPT !.pc = "fetching", !.fetched = TRUE]]
          /\ fetches' = IF entry # NoResult THEN fetches
                        ELSE [fetches EXCEPT ![modelName] = @ + 1]
    /\ UNCHANGED <<isPackaged, envWhisperPath, audioFiles, exeFiles, modelFiles,
                   settingsFile, trVars, otherVars>>

\* the fetch settles: a network error rejects, a response that is not ok makes
\* the handler throw, and both end in the handler's catch
FetchSettles(d, outcome) ==
    /\ download[d].pc = "fetching"
    /\ download' = [download EXCEPT ![d] =
            IF outcome = "ok" THEN [@ EXCEPT !.pc = "reading"]
            ELSE [@ EXCEPT !.pc = "returned",
                           !.reply = Failure(IF outcome = "network"
                                             THEN <<"request to ", "modelUrl", " failed">>
                                             ELSE <<"HTTP ", "404", ": ", "Not Found">>)]]
    /\ UNCHANGED <<fsVars, trVars, fetches, downloads, otherVars>>

\* response.arrayBuffer() settles and fs.writeFileSync(modelPath, ...) runs:
\* the body may fail to arrive, and the write may succeed, fail before the file
\* is created, or fail part-way and leave what it wrote
BodySettles(d, outcome) ==
    /\ download[d].pc = "reading"
    /\ LET modelPath == modelsDir \o <<download[d].modelName>>
       IN /\ modelFiles' =
                IF outcome = "written" THEN [modelFiles EXCEPT ![modelPath] = "complete"]
                ELSE IF outcome = "partial" THEN [modelFiles EXCEPT ![modelPath] = "partial"]
                ELSE modelFiles
          /\ download' = [download EXCEPT ![d] =
                [@ EXCEPT !.pc = "returned",
                          !.wrote = outcome \in {"written", "partial"},
                          !.reply =
                            IF outcome = "written" THEN Downloaded(download[d].modelName)
                            ELSE IF outcome = "aborted" THEN Failure(<<"aborted">>)
                            ELSE IF outcome = "denied"
                                THEN Failure(<<"EACCES: permission denied, open ">> \o modelPath)
                            ELSE Failure(<<"ENOSPC: no space left on device, write">>)]]
    /\ UNCHANGED <<isPackaged, envWhisperPath, audioFiles, exeFiles, modelsDirExists,
                   settingsFile, trVars, fetches, downloads, otherVars>>

\* ---------------------------------------------------------------- list-available-models
\* fs.readdirSync(modelsDir): the names of the files the directory holds
readdirModels ==
    {n \in DirNames : modelFiles[modelsDir \o <<n>>] # "absent"}

\* String.prototype.toLowerCase on the names of the directory
toLowerCase(n) == IF n = UpperCaseModel THEN "ggml-tiny.en.bin" ELSE n

\* the availability test matching names without regard to case
available_ignoreCase(files, name) ==
    \E file \in files : toLowerCase(file) = toLowerCase(name)

\* the availability test with any file of the directory counting for any model
available_anyFile(files, name) == files # {}

\* files.some((file) => file === model.name)
available(files, name) == \E file \in files : file = name

\* the reply of the handler: every catalog descriptor with its availability,
\* all unavailable when the models directory does not exist
listAvailableModels ==
    [success |-> TRUE,
     models |-> [i \in 1..Len(Catalog) |->
                    [name |-> Catalog[i],
                     available |-> IF ~modelsDirExists THEN FALSE
                                   ELSE available(readdirModels, Catalog[i])]]]

\* ipcMain.handle("list-available-models")
ListAvailableModels ==
    /\ listings < MaxListings
    /\ listings' = listings + 1
    /\ listing' = listAvailableModels
    /\ UNCHANGED <<fsVars, trVars, dlVars, saveVars, audioVars, workerVars, uiVars,
                   currentVars, pageVars>>

\* ---------------------------------------------------------------- get-current-model
\* settings.whisperModel || "ggml-base.en.bin"
configuredModel ==
    IF settingsFile.whisperModel # {} /\ TheValue(settingsFile.whisperModel) # ""
    THEN TheValue(settingsFile.whisperModel)
    ELSE DefaultModel

\* the reply of the handler: with a settings file the configured model and
\* whether its file exists in the models directory; without one the default
\* model, reported available without a look at the directory; a failure when
\* the settings file does not parse
getCurrentModel ==
    IF settingsFile.kind = "garbage"
        THEN Failure(<<"Unexpected token in JSON">>)
    ELSE IF settingsFile.kind = "object"
        THEN [success |-> TRUE, model |-> configuredModel,
              available |-> existsModel(modelsDir \o <<configuredModel>>)]
    ELSE [success |-> TRUE, model |-> DefaultModel, available |-> TRUE]

\* ipcMain.handle("get-current-model")
GetCurrentModel ==
    /\ queries < MaxQueries
    /\ queries' = queries + 1
    /\ current' = getCurrentModel
    /\ UNCHANGED <<fsVars, trVars, dlVars, listVars, saveVars, audioVars, workerVars,
                   uiVars, pageVars>>

\* ---------------------------------------------------------------- audio normalizer
\* new AudioContext({ sampleRate: 16000 }): the rate of every decoded buffer
ContextSampleRate == 16000

\* A Float32 sample is the fraction n/d (d > 0); every value used here is one
\* a Float32 holds exactly.  With d = 0 the sample is Infinity (1/0),
\* -Infinity (-1/0) or NaN (0/0).
Float(n, d) == [n |-> n, d |-> d]

\* the sample values of a decoded capture: -1.5, -0.5, 0.5, 1
SampleValues == {Float(-3, 2), Float(-1, 2), Float(1, 2), Float(2, 2)}

\* sample values for the quantizer: out of range on both sides, the bounds, the
\* infinities and NaN, and values whose product is not a whole number
\* (-3/65536 and 1/2)
EncodeValues ==
    {Float(-1, 0), Float(-3, 2), Float(-1, 1), Float(-1, 2), Float(-3, 65536),
     Float(0, 1), Float(1, 2), Float(1, 1), Float(3, 2), Float(1, 0), Float(0, 0)}

\* the sample rates a capture may have been recorded at
SourceRates == {16000, 48000}

\* a recorded or uploaded blob, by what decodeAudioData makes of it at the
\* context's rate (audio: its channels); a canonical WAV blob, by its bytes; a
\* blob that does not decode
CaptureBlob(channels, rate) ==
    [type |-> "audio/webm", kind |-> "capture", audio |-> channels, rate |-> rate,
     bytes |-> <<>>]
WavBlob(bytes) ==
    [type |-> "audio/wav", kind |-> "wav", audio |-> <<>>, rate |-> 0, bytes |-> bytes]
GarbageBlob ==
    [type |-> "audio/webm", kind |-> "garbage", audio |-> <<>>, rate |-> 0,
     bytes |-> <<>>]

ChannelSets ==
    UNION {[1..k -> [1..n -> SampleValues]] : k \in {1, 2}, n \in 0..MaxFrames}
InputBlobs ==
    {CaptureBlob(ch, r) : ch \in ChannelSets, r \in SourceRates} \cup {GarbageBlob}

\* DataView.setUint16 and setUint32, little-endian
setUint16(x) == <<x % 256, (x \div 256) % 256>>
setUint32(x) ==
    <<x % 256, (x \div 256) % 256, (x \div 65536) % 256, (x \div 16777216) % 256>>
\* DataView.setInt16 of an integer: two's complement, little-endian
setInt16(v) == setUint16(v % 65536)

\* String.prototype.charCodeAt for the characters of the chunk tags
charCodeAt ==
    [c \in {"R", "I", "F", "W", "A", "V", "E", "f", "m", "t", " ", "d", "a"} |->
        CASE c = "R" -> 82 [] c = "I" -> 73 [] c = "F" -> 70 [] c = "W" -> 87
          [] c = "A" -> 65 [] c = "V" -> 86 [] c = "E" -> 69 [] c = "f" -> 102
          [] c = "m" -> 109 [] c = "t" -> 116 [] c = " " -> 32 [] c = "d" -> 100
          [] c = "a" -> 97]

\* writeString: one byte per character
writeString(string) == [i \in 1..Len(string) |-> charCodeAt[string[i]]]

\* the sample written without clamping
clamp_none(s) == s

\* Math.max(-1, Math.min(1, s)); NaN stays NaN
clamp(s) ==
    IF s.n > s.d THEN Float(1, 1)
    ELSE IF s.n < -s.d THEN Float(-1, 1)
    ELSE s

\* the conversion of a number to an integer that setInt16 makes: toward zero
truncDiv(a, b) == IF a >= 0 THEN a \div b ELSE -((-a) \div b)

\* s < 0 ? s * 0x8000 : s * 0x7fff, as setInt16 stores it: a number is cut
\* toward zero, NaN and the infinities become 0
quantize(s) ==
    LET c == clamp(s)
    IN IF c.d = 0 THEN 0
       ELSE IF c.n < 0 THEN truncDiv(c.n * 32768, c.d)
       ELSE truncDiv(c.n * 32767, c.d)

RECURSIVE pcmBytes(_)
pcmBytes(samples) ==
    IF samples = <<>> THEN <<>>
    ELSE setInt16(quantize(Head(samples))) \o pcmBytes(Tail(samples))

\* encodeWAV: the 44-byte header, then the samples
encodeWAV(samples, sampleRate) ==
    writeString(<<"R", "I", "F", "F">>) \o setUint32(36 + Len(samples) * 2)
        \o writeString(<<"W", "A", "V", "E">>) \o writeString(<<"f", "m", "t", " ">>)
        \o setUint32(16) \o setUint16(1) \o setUint16(1)
        \o setUint32(sampleRate) \o setUint32(sampleRate * 2)
        \o setUint16(2) \o setUint16(16)
        \o writeString(<<"d", "a", "t", "a">>) \o setUint32(Len(samples) * 2)
        \o pcmBytes(samples)

\* mergeChannels writing both channels one after the other
mergeChannels_concat(audioBuffer) ==
    audioBuffer.channels[1] \o audioBuffer.channels[2]

\* mergeChannels: the mean of the first two channels, frame by frame
mergeChannels(audioBuffer) ==
    LET left == audioBuffer.channels[1]
        right == IF audioBuffer.numberOfChannels > 1
                 THEN audioBuffer.channels[2] ELSE left
    IN [i \in 1..Len(left) |->
            Float(left[i].n * right[i].d + right[i].n * left[i].d,
                  2 * left[i].d * right[i].d)]

\* the divisors a PCM decoder may scale a non-negative 16-bit sample by
PcmScales == {32768, 32767}

\* reading a little-endian field at a byte offset
getUint16(bytes, offset) == bytes[offset + 1] + 256 * bytes[offset + 2]
getUint32(bytes, offset) ==
    bytes[offset + 1] + 256 * bytes[offset + 2] + 65536 * bytes[offset + 3]
        + 16777216 * bytes[offset + 4]
getInt16(bytes, offset) ==
    LET u == getUint16(bytes, offset) IN IF u >= 32768 THEN u - 65536 ELSE u

\* audioContext.decodeAudioData: an AudioBuffer at the context's rate.  A
\* capture yields its channels; a 16-bit PCM WAV at the context's rate yields
\* one Float32 per sample, a negative one divided by 32768 and a non-negative
\* one by the decoder's scale.
decodeAudioData(blob, scale) ==
    IF blob.kind = "capture"
    THEN [numberOfChannels |-> Len(blob.audio), channels |-> blob.audio,
          sampleRate |-> ContextSampleRate]
    ELSE [numberOfChannels |-> getUint16(blob.bytes, 22),
          channels |->
            <<[i \in 1..(getUint32(blob.bytes, 40) \div 2) |->
                LET v == getInt16(blob.bytes, 44 + 2 * (i - 1))
                IN IF v < 0 THEN Float(v, 32768) ELSE Float(v, scale)]>>,
          sampleRate |-> ContextSampleRate]

IdleConv ==
    [pc |-> "idle", audioBlob |-> GarbageBlob,
     result |-> {},     \* the blob the call returned
     threw |-> FALSE,   \* the call threw to its caller
     failedAt |-> ""]   \* the step that failed, if one did

\* the catch of convertToWav handing the error on
convertCatch_rethrow(audioBlob, step) ==
    [conv EXCEPT !.pc = "returned", !.threw = TRUE, !.failedAt = step]

\* the catch of convertToWav: the error is logged and the input blob returned
convertCatch(audioBlob, step) ==
    [conv EXCEPT !.pc = "returned", !.result = {audioBlob}, !.failedAt = step]

\* convertToWav(audioBlob) up to await audioBlob.arrayBuffer(): the audio
\* context is created, which may throw
ConvertToWav(audioBlob, outcome) ==
    /\ conv.pc \in {"idle", "returned"}
    /\ conversions < MaxConversions
    /\ conversions' = conversions + 1
    /\ conv' = IF outcome = "threw"
               THEN [convertCatch(audioBlob, "context") EXCEPT !.audioBlob = audioBlob,
                                                               !.threw = FALSE]
               ELSE [IdleConv EXCEPT !.pc = "reading", !.audioBlob = audioBlob]
    /\ UNCHANGED <<fsVars, trVars, dlVars, listVars, saveVars, workerVars, uiVars,
                   currentVars, pageVars>>

\* audioBlob.arrayBuffer() settles
ArrayBufferSettles(outcome) ==
    /\ conv.pc = "reading"
    /\ conv' = IF outcome = "rejected" THEN convertCatch(conv.audioBlob, "arrayBuffer")
               ELSE [conv EXCEPT !.pc = "decoding"]
    /\ UNCHANGED <<fsVars, trVars, dlVars, listVars, saveVars, conversions, workerVars,
                   uiVars, currentVars, pageVars>>

\* decodeAudioData settles and the rest of the function runs: a blob that
\* does not decode rejects (any blob may); after a decode the channels are
\* merged and encoded, and either step may throw
DecodeSettles(outcome, scale) ==
    /\ conv.pc = "decoding"
    /\ outcome = "encoded" => conv.audioBlob.kind # "garbage"
    /\ conv' =
        IF outcome = "rejected" THEN convertCatch(conv.audioBlob, "decode")
        ELSE IF outcome = "mergeThrew" THEN convertCatch(conv.audioBlob, "merge")
        ELSE IF outcome = "encodeThrew" THEN convertCatch(conv.audioBlob, "encode")
        ELSE LET audioBuffer == decodeAudioData(conv.audioBlob, scale)
                 channelData == IF audioBuffer.numberOfChannels > 1
                                THEN mergeChannels(audioBuffer)
                                ELSE audioBuffer.channels[1]
                 wavBuffer == encodeWAV(channelData, audioBuffer.sampleRate)
             IN [conv EXCEPT !.pc = "returned", !.result = {WavBlob(wavBuffer)}]
    /\ UNCHANGED <<fsVars, trVars, dlVars, listVars, saveVars, conversions, workerVars,
                   uiVars, currentVars, pageVars>>

\* ---------------------------------------------------------------- worker
MeetingIds == {"m1", "m2"}
Methods == {"GET", "POST", "DELETE", "OPTIONS"}

\* request paths, by their segments
WorkerPaths ==
    {<<"api", "transcripts">>, <<"api", "meetings">>, <<"api", "other">>, <<"health">>}
        \cup {<<"api", "meetings", id>> : id \in MeetingIds}

\* values of the X-API-Key header and of the API_KEY secret
HeaderKeys == {{}, {<<>>}, {<<"k1">>}, {<<"k2">>}}
SecretKeys == {{}, {<<>>}, {<<"k1">>}}

\* request bodies of POST /api/transcripts, by their transcript
Transcripts == {<<>>, <<" ">>, <<"hi">>}

\* the path pattern "/api/*"
matchesApi(path) == path # <<>> /\ Head(path) = "api"

\* the cors middleware on "/*": it answers a preflight itself and calls next()
\* for every other method
corsAnswers(method) == method = "OPTIONS"

\* the key test letting a request without the header through
unauthorized_headerOptional(serverApiKey, apiKey) ==
    OptTruthy(serverApiKey) /\ OptTruthy(apiKey) /\ apiKey # serverApiKey

\* serverApiKey && (!apiKey || apiKey !== serverApiKey)
unauthorized(serverApiKey, apiKey) ==
    OptTruthy(serverApiKey) /\ (~OptTruthy(apiKey) \/ apiKey # serverApiKey)

\* the route a request is dispatched to
routeOf(method, path) ==
    IF method = "POST" /\ path = <<"api", "transcripts">> THEN "postTranscripts"
    ELSE IF method = "GET" /\ path = <<"api", "meetings">> THEN "listMeetings"
    ELSE IF method = "GET" /\ Len(path) = 3 /\ SubSeq(path, 1, 2) = <<"api", "meetings">>
        THEN "getMeeting"
    ELSE IF method = "DELETE" /\ Len(path) = 3
                /\ SubSeq(path, 1, 2) = <<"api", "meetings">>
        THEN "deleteMeeting"
    ELSE IF method = "GET" /\ path = <<"health">> THEN "health"
    ELSE "notFound"

Response(method, path, apiKey, status, ran) ==
    [method |-> method, path |-> path, apiKey |-> apiKey, status |-> status,
     ran |-> ran]  \* the route handler that ran, or "none"
NoResponse == Response("", <<>>, {}, 0, "none")

\* the status a route handler answers with: outcome "error" is a failure of
\* the AI or database binding the handler awaits, id the generated meeting id
handlerStatus(route, path, transcript, id, outcome) ==
    IF route = "health" THEN 200
    ELSE IF route = "notFound" THEN 404
    ELSE IF route = "postTranscripts" /\ trim(transcript) = <<>> THEN 400
    ELSE IF outcome = "error" THEN 500
    ELSE IF route = "postTranscripts" THEN (IF id \in meetings THEN 500 ELSE 201)
    ELSE IF route = "listMeetings" THEN 200
    ELSE IF path[3] \in meetings THEN 200
    ELSE 404

\* the rows of the meetings table after the handler
handlerRows(route, path, transcript, id, outcome) ==
    IF handlerStatus(route, path, transcript, id, outcome) \notin {200, 201} THEN meetings
    ELSE IF route = "postTranscripts" THEN meetings \cup {id}
    ELSE IF route = "deleteMeeting" THEN meetings \ {path[3]}
    ELSE meetings

\* app.fetch: the cors middleware, the authentication middleware on "/api/*",
\* then the route handler
Fetch(method, path, apiKey, transcript, id, outcome) ==
    /\ served < MaxFetches
    /\ served' = served + 1
    /\ LET route == routeOf(method, path)
       IN IF corsAnswers(method)
          THEN /\ response' = Response(method, path, apiKey, 204, "none")
               /\ meetings' = meetings
          ELSE IF matchesApi(path) /\ unauthorized(API_KEY, apiKey)
          THEN /\ response' = Response(method, path, apiKey, 401, "none")
               /\ meetings' = meetings
          ELSE /\ response' =
                    Response(method, path, apiKey,
                             handlerStatus(route, path, transcript, id, outcome), route)
               /\ meetings' = handlerRows(route, path, transcript, id, outcome)
    /\ UNCHANGED <<fsVars, trVars, dlVars, listVars, saveVars, audioVars, API_KEY,
                   uiVars, currentVars, pageVars>>

\* ---------------------------------------------------------------- settings page
\* the values of the model select: the catalog's file names, or none selected
SelectValues == CatalogNames \cup {""}

IdleClick ==
    [pc |-> "idle", modelName |-> "",
     prev |-> 0]   \* the order of the request its slot held when it sent its own

\* the labels the handlers give the download button
DownloadLabel == "Download Model"
DownloadingLabel == "Downloading..."
AvailableLabel == "Model Already Available"

EnabledBtn == [disabled |-> FALSE, text |-> DownloadLabel]

\* the request of the click is with the main process or its reply not yet handled
Sent(k) == click[k].pc = "sent"

\* a 'click' event on the download button (a disabled button dispatches none):
\* downloadModel up to await api.listAvailableModels()
ClickDownload(k, modelName) ==
    /\ ~downloadBtn.disabled
    /\ click[k].pc = "idle"
    /\ clicks < MaxClicks
    /\ clicks' = clicks + 1
    /\ click' = [click EXCEPT ![k] =
            IF modelName = "" THEN IdleClick
            ELSE [IdleClick EXCEPT !.pc = "listing", !.modelName = modelName]]
    /\ downloadBtn' = downloadBtn
    /\ UNCHANGED <<fsVars, trVars, dlVars, listVars, saveVars, audioVars, workerVars,
                   currentVars, pageVars>>

\* the listing arrives: a model that is available ends the handler; otherwise
\* the button is disabled and api.downloadModel(modelName) is invoked
ListingSettles(k) ==
    /\ click[k].pc = "listing"
    /\ LET modelsResult == listAvailableModels
           found == {i \in 1..Len(modelsResult.models) :
                        /\ modelsResult.models[i].name = click[k].modelName
                        /\ modelsResult.models[i].available}
       IN IF modelsResult.success /\ found # {}
          THEN /\ click' = [click EXCEPT ![k] = IdleClick]
               /\ downloadBtn' = downloadBtn
          ELSE /\ click' = [click EXCEPT ![k].pc = "sent",
                                         ![k].prev = download[k].order]
               /\ downloadBtn' = [downloadBtn EXCEPT !.disabled = TRUE,
                                                     !.text = DownloadingLabel]
    /\ UNCHANGED <<fsVars, trVars, dlVars, listVars, saveVars, audioVars, workerVars,
                   clicks, currentVars, pageVars>>

\* the main process takes up the request a click has sent
InvokeDownloadModel(k) ==
    /\ Sent(k)
    /\ download[k].order = click[k].prev
    /\ DownloadModel(k, click[k].modelName)

\* the reply handled without the failure branch enabling the button again
DownloadReplied_noEnable(k) ==
    /\ Sent(k)
    /\ download[k].order # click[k].prev
    /\ download[k].pc = "returned"
    /\ click' = [click EXCEPT ![k] =
            IF download[k].reply.success THEN [@ EXCEPT !.pc = "refreshing"] ELSE IdleClick]
    /\ downloadBtn' = downloadBtn
    /\ UNCHANGED <<fsVars, trVars, dlVars, listVars, saveVars, audioVars, workerVars,
                   clicks, currentVars, pageVars>>

\* the reply of download-model arrives: after a success the listing and the
\* model indicator are refreshed before the button is enabled again, after a
\* failure the button is enabled at once
DownloadReplied(k) ==
    /\ Sent(k)
    /\ download[k].order # click[k].prev
    /\ download[k].pc = "returned"
    /\ IF download[k].reply.success
       THEN /\ click' = [click EXCEPT ![k].pc = "refreshing"]
            /\ downloadBtn' = downloadBtn
       ELSE /\ click' = [click EXCEPT ![k] = IdleClick]
            /\ downloadBtn' = [downloadBtn EXCEPT !.disabled = FALSE,
                                                  !.text = DownloadLabel]
    /\ UNCHANGED <<fsVars, trVars, dlVars, listVars, saveVars, audioVars, workerVars,
                   clicks, currentVars, pageVars>>

\* updateAvailableModels and updateCurrentModelIndicator have settled
RefreshSettles(k) ==
    /\ click[k].pc = "refreshing"
    /\ click' = [click EXCEPT ![k] = IdleClick]
    /\ downloadBtn' = [downloadBtn EXCEPT !.disabled = FALSE, !.text = DownloadLabel]
    /\ UNCHANGED <<fsVars, trVars, dlVars, listVars, saveVars, audioVars, workerVars,
                   clicks, currentVars, pageVars>>

\* ---------------------------------------------------------------- model select
IdleChange == [pc |-> "idle", selectedModel |-> ""]

\* what the promise of updateAvailableModels() resolves to: the function has no
\* return statement, so undefined (the empty optional)
updateAvailableModels == {}

\* the callback setupModelSelection passes to updateAvailableModels().then
onModelsRefreshed(result, selectedModel, btn) ==
    IF result # {} /\ TheValue(result).success
    THEN LET models == TheValue(result).models
             found == {i \in 1..Len(models) :
                          models[i].name = selectedModel /\ models[i].available}
         IN IF found # {}
            THEN [btn EXCEPT !.text = AvailableLabel, !.disabled = TRUE]
            ELSE [btn EXCEPT !.text = DownloadLabel, !.disabled = FALSE]
    ELSE btn

\* a 'change' event on the model select: the listener up to the pending
\* updateAvailableModels() promise
SelectChange(selectedModel) ==
    /\ change.pc = "idle"
    /\ changes < MaxChanges
    /\ changes' = changes + 1
    /\ change' = [pc |-> "refreshing", selectedModel |-> selectedModel]
    /\ UNCHANGED <<fsVars, trVars, dlVars, listVars, saveVars, audioVars, workerVars,
                   uiVars, currentVars, panelVars, recVars>>

\* updateAvailableModels has fetched the listing and redrawn the list; its
\* promise resolves and the callback runs
ChangeRefreshSettles ==
    /\ change.pc = "refreshing"
    /\ change' = IdleChange
    /\ downloadBtn' = onModelsRefreshed(updateAvailableModels, change.selectedModel,
                                        downloadBtn)
    /\ UNCHANGED <<fsVars, trVars, dlVars, listVars, saveVars, audioVars, workerVars,
                   click, clicks, currentVars, changes, panelVars,
                   recVars>>

\* ---------------------------------------------------------------- transcript panel
\* the handlers of the renderer that transcribe and show the result: a
\* stopped recording, an uploaded file, a recording of the recordings list
Handlers == {"record", "upload", "list"}

\* the transcripts a reply of transcribe-audio may carry
PanelTexts == {<<"rec">>, <<"up">>}

\* the replies of api.transcribeAudio, as the handlers read them
PanelReplies == {Failure(<<"failed">>)} \cup {[success |-> TRUE, transcript |-> t] : t \in PanelTexts}

IdleJob == [pc |-> "idle", text |-> <<>>]

\* displayTranscript(transcript): what the panel's textContent becomes
displayTranscript(transcript) == {transcript}

\* setState("currentTranscript", { text, filepath, timestamp })
setCurrentTranscript(text) == {text}

\* the controls that start a transcription respond (disableRecordingControls
\* is taken to block each of them until enableRecordingControls)
ControlsEnabled == ~controlsDisabled

\* the handler is between its state update and its display update
Updated(h) == job[h].pc = "updated"

\* a transcription is started for that handler
Starts(h) ==
    /\ ControlsEnabled
    /\ job[h].pc = "idle"
    /\ transcriptions < MaxTranscriptions
    /\ transcriptions' = transcriptions + 1
    /\ job' = [job EXCEPT ![h].pc = "transcribing"]

\* processRecording(audioBlob) up to await api.transcribeAudio, the recording
\* read and saved
ProcessRecording ==
    /\ Starts("record")
    /\ UNCHANGED <<fsVars, trVars, dlVars, listVars, saveVars, audioVars, workerVars,
                   uiVars, currentVars, selVars, recVars, currentTranscript, shown,
                   controlsDisabled>>

\* handleUploadAudio up to await api.transcribeAudio, a file chosen
HandleUploadAudio ==
    /\ Starts("upload")
    /\ controlsDisabled' = TRUE
    /\ UNCHANGED <<fsVars, trVars, dlVars, listVars, saveVars, audioVars, workerVars,
                   uiVars, currentVars, selVars, recVars, currentTranscript, shown>>

\* handleTranscribeRecording(recording) up to await api.transcribeAudio
HandleTranscribeRecording ==
    /\ Starts("list")
    /\ controlsDisabled' = TRUE
    /\ UNCHANGED <<fsVars, trVars, dlVars, listVars, saveVars, audioVars, workerVars,
                   uiVars, currentVars, selVars, recVars, currentTranscript, shown>>

\* the reply of transcribe-audio arrives at processRecording: the state and
\* the panel are updated without an await between them
RecordingTranscribed(reply) ==
    /\ job["record"].pc = "transcribing"
    /\ job' = [job EXCEPT !["record"] = IdleJob]
    /\ IF reply.success
       THEN /\ currentTranscript' = setCurrentTranscript(reply.transcript)
            /\ shown' = displayTranscript(reply.transcript)
       ELSE UNCHANGED <<currentTranscript, shown>>
    /\ UNCHANGED <<fsVars, trVars, dlVars, listVars, saveVars, audioVars, workerVars,
                   uiVars, currentVars, selVars, recVars, controlsDisabled, transcriptions>>

\* the reply arrives at handleUploadAudio: the state is updated and the
\* handler awaits import("./ui.js"); a failure enables the controls
UploadTranscribed(reply) ==
    /\ job["upload"].pc = "transcribing"
    /\ IF reply.success
       THEN /\ currentTranscript' = setCurrentTranscript(reply.transcript)
            /\ job' = [job EXCEPT !["upload"] = [pc |-> "updated", text |-> reply.transcript]]
            /\ UNCHANGED controlsDisabled
       ELSE /\ job' = [job EXCEPT !["upload"] = IdleJob]
            /\ controlsDisabled' = FALSE
            /\ UNCHANGED currentTranscript
    /\ UNCHANGED <<fsVars, trVars, dlVars, listVars, saveVars, audioVars, workerVars,
                   uiVars, currentVars, selVars, recVars, shown, transcriptions>>

\* the reply arrives at handleTranscribeRecording: a success awaits
\* import("./state.js"), a failure enables the controls
ListTranscribed(reply) ==
    /\ job["list"].pc = "transcribing"
    /\ IF reply.success
       THEN /\ job' = [job EXCEPT !["list"] = [pc |-> "importing", text |-> reply.transcript]]
            /\ UNCHANGED controlsDisabled
       ELSE /\ job' = [job EXCEPT !["list"] = IdleJob]
            /\ controlsDisabled' = FALSE
    /\ UNCHANGED <<fsVars, trVars, dlVars, listVars, saveVars, audioVars, workerVars,
                   uiVars, currentVars, selVars, recVars, currentTranscript, shown, transcriptions>>

\* import("./state.js") settles in handleTranscribeRecording: the state is
\* updated and the handler awaits import("./ui.js")
StateImported ==
    /\ job["list"].pc = "importing"
    /\ currentTranscript' = setCurrentTranscript(job["list"].text)
    /\ job' = [job EXCEPT !["list"].pc = "updated"]
    /\ UNCHANGED <<fsVars, trVars, dlVars, listVars, saveVars, audioVars, workerVars,
                   uiVars, currentVars, selVars, recVars, shown, controlsDisabled, transcriptions>>

\* import("./ui.js") settles in handleUploadAudio or handleTranscribeRecording:
\* the panel is updated and the controls are enabled
UiImported(h) ==
    /\ h \in {"upload", "list"}
    /\ Updated(h)
    /\ shown' = displayTranscript(job[h].text)
    /\ job' = [job EXCEPT ![h] = IdleJob]
    /\ controlsDisabled' = FALSE
    /\ UNCHANGED <<fsVars, trVars, dlVars, listVars, saveVars, audioVars, workerVars,
                   uiVars, currentVars, selVars, recVars, currentTranscript, transcriptions>>

\* ---------------------------------------------------------------- recording controls
\* one call of startRecording: its microphone stream ("requested" while
\* getUserMedia is pending, then "live" or "denied", "released" once its tracks
\* are stopped), the MediaRecorder made for it, and its onstop handler
NewStart == [mic |-> "requested", state |-> "none", onstop |-> "none"]

\* MediaRecorder.state of the recorder state.mediaRecorder refers to
recorderState == IF mediaRecorder = {} THEN "none" ELSE rec[TheValue(mediaRecorder)].state

\* MediaRecorder.pause() and resume() throw InvalidStateError on an inactive
\* recorder; stop() returns without effect on one
Throws(st) == st = "inactive"

\* the recorder is capturing or paused
Live(i) == rec[i].state \in {"recording", "paused"}

\* a 'click' on the record button, no dialog open: handleRecordToggle asks for
\* confirmation when state.isRecording, and else runs startRecording up to
\* await navigator.mediaDevices.getUserMedia(...)
ClickRecord ==
    /\ ~confirming
    /\ IF isRecording
       THEN /\ confirming' = TRUE
            /\ UNCHANGED rec
       ELSE /\ Len(rec) < MaxStarts
            /\ rec' = Append(rec, NewStart)
            /\ UNCHANGED confirming
    /\ UNCHANGED <<fsVars, trVars, dlVars, listVars, saveVars, audioVars, workerVars,
                   uiVars, currentVars, selVars, panelVars, isRecording, isPaused,
                   mediaRecorder>>

\* getUserMedia settles for that call: with a stream the recorder is made,
\* stored in state.mediaRecorder and started, and the flags are set; a
\* rejection is reported and changes nothing
MicSettles(i, outcome) ==
    /\ i \in 1..Len(rec)
    /\ rec[i].mic = "requested"
    /\ IF outcome = "granted"
       THEN /\ rec' = [rec EXCEPT ![i].mic = "live", ![i].state = "recording"]
            /\ mediaRecorder' = {i}
            /\ isRecording' = TRUE
            /\ isPaused' = FALSE
       ELSE /\ rec' = [rec EXCEPT ![i].mic = "denied"]
            /\ UNCHANGED <<mediaRecorder, isRecording, isPaused>>
    /\ UNCHANGED <<fsVars, trVars, dlVars, listVars, saveVars, audioVars, workerVars,
                   uiVars, currentVars, selVars, panelVars, confirming>>

\* pauseRecording()
pauseRecording ==
    IF mediaRecorder # {} /\ isRecording /\ ~isPaused /\ ~Throws(recorderState)
    THEN /\ rec' = [rec EXCEPT ![TheValue(mediaRecorder)].state = "paused"]
         /\ isPaused' = TRUE
    ELSE UNCHANGED <<rec, isPaused>>

\* resumeRecording()
resumeRecording ==
    IF mediaRecorder # {} /\ isRecording /\ isPaused /\ ~Throws(recorderState)
    THEN /\ rec' = [rec EXCEPT ![TheValue(mediaRecorder)].state = "recording"]
         /\ isPaused' = FALSE
    ELSE UNCHANGED <<rec, isPaused>>

\* a 'click' on the pause button: handlePauseToggle
ClickPause ==
    /\ ~confirming
    /\ IF isPaused THEN resumeRecording ELSE pauseRecording
    /\ UNCHANGED <<fsVars, trVars, dlVars, listVars, saveVars, audioVars, workerVars,
                   uiVars, currentVars, selVars, panelVars, isRecording, mediaRecorder,
                   confirming>>

\* stopRecording() leaving state.isPaused as it is
stopRecording_keepPaused ==
    IF mediaRecorder # {} /\ isRecording /\ ~(isPaused /\ Throws(recorderState))
    THEN /\ rec' = [rec EXCEPT ![TheValue(mediaRecorder)] =
                        IF Live(TheValue(mediaRecorder))
                        THEN [@ EXCEPT !.state = "inactive", !.onstop = "pending"]
                        ELSE @]
         /\ isRecording' = FALSE
         /\ UNCHANGED isPaused
    ELSE UNCHANGED <<rec, isRecording, isPaused>>

\* stopRecording(): a paused recorder is resumed, the recorder is stopped (its
\* 'stop' event is queued) and both flags are cleared
stopRecording ==
    IF mediaRecorder # {} /\ isRecording /\ ~(isPaused /\ Throws(recorderState))
    THEN /\ rec' = [rec EXCEPT ![TheValue(mediaRecorder)] =
                        IF Live(TheValue(mediaRecorder))
                        THEN [@ EXCEPT !.state = "inactive", !.onstop = "pending"]
                        ELSE @]
         /\ isRecording' = FALSE
         /\ isPaused' = FALSE
    ELSE UNCHANGED <<rec, isRecording, isPaused>>

\* 'click' on the dialog's Confirm button: the dialog closes and the callback
\* of handleRecordToggle runs stopRecording
ConfirmStop ==
    /\ confirming
    /\ confirming' = FALSE
    /\ stopRecording
    /\ UNCHANGED <<fsVars, trVars, dlVars, listVars, saveVars, audioVars, workerVars,
                   uiVars, currentVars, selVars, panelVars, mediaRecorder>>

\* the dialog is dismissed (Cancel, Escape or a click on the overlay)
CancelStop ==
    /\ confirming
    /\ confirming' = FALSE
    /\ UNCHANGED <<fsVars, trVars, dlVars, listVars, saveVars, audioVars, workerVars,
                   uiVars, currentVars, selVars, panelVars, isRecording, isPaused,
                   mediaRecorder, rec>>

\* the onstop handler of that recorder has converted the capture and handed
\* it to processRecording: the tracks of its stream are stopped
OnStop(i) ==
    /\ i \in 1..Len(rec)
    /\ rec[i].onstop = "pending"
    /\ rec' = [rec EXCEPT ![i].onstop = "done", ![i].mic = "released"]
    /\ UNCHANGED <<fsVars, trVars, dlVars, listVars, saveVars, audioVars, workerVars,
                   uiVars, currentVars, selVars, panelVars, isRecording, isPaused,
                   mediaRecorder, confirming>>

\* ---------------------------------------------------------------- specifications
\* the settings page before any click
InitUiIdle ==
    /\ downloadBtn = EnabledBtn
    /\ click = [k \in Slots |-> IdleClick]
    /\ clicks = 0

\* no get-current-model request made yet
InitCurrentIdle ==
    /\ current = NoResult
    /\ queries = 0

\* the page before any event on its controls
InitPageIdle ==
    /\ change = IdleChange
    /\ changes = 0
    /\ currentTranscript = {}
    /\ shown = {}
    /\ job = [h \in Handlers |-> IdleJob]
    /\ controlsDisabled = FALSE
    /\ transcriptions = 0
    /\ isRecording = FALSE
    /\ isPaused = FALSE
    /\ mediaRecorder = {}
    /\ rec = <<>>
    /\ confirming = FALSE

InitMain ==
    /\ envWhisperPath = {}
    /\ sidecarJson = [p \in {jsonPath(a) : a \in AudioPaths} |-> NoJson]
    /\ sidecarTxt = [p \in {txtPath(a) : a \in AudioPaths} |-> {}]
    /\ call = [c \in Calls |-> IdleCall]
    /\ requests = 0
    /\ download = [d \in Slots |-> IdleDownload]
    /\ fetches = [n \in RequestNames |-> 0]
    /\ downloads = 0
    /\ listing = NoResult
    /\ listings = 0
    /\ saved = NothingSaved
    /\ saves = 0
    /\ InitUiIdle
    /\ InitCurrentIdle
    /\ InitPageIdle

\* the renderer with nothing to convert
InitAudioIdle ==
    /\ conv = IdleConv
    /\ conversions = 0

\* the worker before any request, without a secret
InitWorkerIdle ==
    /\ API_KEY = {}
    /\ meetings = {}
    /\ response = NoResponse
    /\ served = 0

InitCommon ==
    /\ InitMain
    /\ InitAudioIdle
    /\ InitWorkerIdle

\* the files a model directory may hold at start: none without the directory
InitModelsDir ==
    /\ modelsDirExists \in BOOLEAN
    /\ \E present \in SUBSET {modelsDir \o <<n>> : n \in RequestNames} :
            /\ (~modelsDirExists => present = {})
            /\ modelFiles = [p \in ModelFilePaths |->
                                IF p \in present THEN "complete" ELSE "absent"]

\* the transcription pipeline alone: every combination of audio, model and
\* engine presence, one request at a time
InitTranscribe ==
    /\ InitCommon
    /\ isPackaged = FALSE
    /\ modelsDirExists = TRUE
    /\ audioFiles \in SUBSET AudioPaths
    /\ exeFiles \in SUBSET {resourcesPath(FALSE) \o <<"whisper-cli">>}
    /\ settingsFile \in {NoSettings, SettingsObject({"ggml-tiny.en.bin"})}
    /\ \E present \in SUBSET {Resolve(<<DefaultModel>>)} :
            modelFiles = [p \in ModelFilePaths |->
                            IF p \in present THEN "complete" ELSE "absent"]

NextTranscribe ==
    \/ \E a \in AudioPaths, o \in {"started", "failed", "threw"} : TranscribeAudio("t1", a, o)
    \/ Tick("t1")
    \/ \E k \in StdoutChunks : StdoutData("t1", k)
    \/ \E k \in StderrChunks : StderrData("t1", k)
    \/ \E doc \in JsonWrites : EngineWriteJson("t1", doc)
    \/ \E text \in TxtWrites : EngineWriteTxt("t1", text)
    \/ ChildError("t1")
    \/ \E code \in ExitCodes \cup {SpawnErrno} : ChildClose("t1", code)
    \/ \E a \in AudioPaths : DeleteRecording(a)

SpecTranscribe == InitTranscribe /\ [][NextTranscribe]_vars

\* the model installer alone: two request slots, so that requests may overlap
InitModels ==
    /\ InitCommon
    /\ isPackaged = FALSE
    /\ audioFiles = {}
    /\ exeFiles = {}
    /\ settingsFile = NoSettings
    /\ InitModelsDir

NextModels ==
    \/ \E d \in Slots, n \in RequestNames : DownloadModel(d, n)
    \/ \E d \in Slots, o \in {"ok", "network", "http"} : FetchSettles(d, o)
    \/ \E d \in Slots, o \in {"written", "aborted", "denied", "partial"} : BodySettles(d, o)
    \/ ListAvailableModels

SpecModels == InitModels /\ [][NextModels]_vars

\* settings changes between transcription requests: both request slots, every
\* file present, the handler of either main-process file
InitSettings ==
    /\ InitCommon
    /\ isPackaged = FALSE
    /\ modelsDirExists = TRUE
    /\ audioFiles = AudioPaths
    /\ exeFiles = {resourcesPath(FALSE) \o <<"whisper-cli">>}
    /\ settingsFile \in {NoSettings, SettingsObject({"ggml-base.en.bin"})}
    /\ modelFiles = [p \in ModelFilePaths |->
                        IF p = resourcesPath(FALSE) \o <<"models", DefaultModel>>
                               \/ p \in {Resolve(<<n>>) : n \in CatalogNames}
                        THEN "complete" ELSE "absent"]

NextSettings ==
    \/ \E m \in SettingsInputs, o \in {"written", "denied", "partial"} : SaveSettings(m, o)
    \/ \E c \in Calls, a \in AudioPaths, o \in {"started", "failed", "threw"} :
            TranscribeAudio(c, a, o)
    \/ \E c \in Calls, a \in AudioPaths, o \in {"started", "failed", "threw"} :
            TranscribeAudioMain(c, a, o)
    \/ \E c \in Calls : ChildError(c)
    \/ \E c \in Calls, code \in ExitCodes \cup {SpawnErrno} : ChildClose(c, code)

SpecSettings == InitSettings /\ [][NextSettings]_vars

\* the engine locator: every combination of the environment override, the
\* packaging and the executables on disk, with the audio and the models present
InitLocator ==
    /\ envWhisperPath \in {{}} \cup {{p} : p \in ExePaths}
    /\ isPackaged \in BOOLEAN
    /\ exeFiles \in SUBSET ExePaths
    /\ audioFiles = AudioPaths
    /\ modelsDirExists = TRUE
    /\ settingsFile = NoSettings
    /\ modelFiles = [p \in ModelFilePaths |-> "complete"]
    /\ sidecarJson = [p \in {jsonPath(a) : a \in AudioPaths} |-> NoJson]
    /\ sidecarTxt = [p \in {txtPath(a) : a \in AudioPaths} |-> {}]
    /\ call = [c \in Calls |-> IdleCall]
    /\ requests = 0
    /\ download = [d \in Slots |-> IdleDownload]
    /\ fetches = [n \in RequestNames |-> 0]
    /\ downloads = 0
    /\ listing = NoResult
    /\ listings = 0
    /\ saved = NothingSaved
    /\ saves = 0
    /\ InitUiIdle
    /\ InitCurrentIdle
    /\ InitPageIdle
    /\ InitAudioIdle
    /\ InitWorkerIdle

NextLocator ==
    \/ \E a \in AudioPaths, o \in {"started", "failed", "threw"} : TranscribeAudio("t1", a, o)
    \/ ChildError("t1")
    \/ \E code \in ExitCodes \cup {SpawnErrno} : ChildClose("t1", code)

SpecLocator == InitLocator /\ [][NextLocator]_vars

\* the main process at rest
InitDesktop ==
    /\ isPackaged = FALSE
    /\ modelsDirExists = TRUE
    /\ audioFiles = {}
    /\ exeFiles = {}
    /\ settingsFile = NoSettings
    /\ modelFiles = [p \in ModelFilePaths |-> "absent"]

\* the audio normalizer alone: the renderer holds a blob, recorded or chosen
\* for upload, and converts it, or converts again what a conversion returned
InitAudio ==
    /\ InitMain
    /\ InitDesktop
    /\ InitWorkerIdle
    /\ conv \in {[IdleConv EXCEPT !.audioBlob = blob] : blob \in InputBlobs}
    /\ conversions = 0

NextAudio ==
    \/ \E blob \in {conv.audioBlob} \cup conv.result, o \in {"created", "threw"} :
            ConvertToWav(blob, o)
    \/ \E o \in {"resolved", "rejected"} : ArrayBufferSettles(o)
    \/ \E o \in {"encoded", "rejected", "mergeThrew", "encodeThrew"}, scale \in PcmScales :
            DecodeSettles(o, scale)

SpecAudio == InitAudio /\ [][NextAudio]_vars

\* the worker alone: with and without a secret, every method, path and key
InitWorker ==
    /\ InitMain
    /\ InitDesktop
    /\ InitAudioIdle
    /\ API_KEY \in SecretKeys
    /\ meetings = {}
    /\ response = NoResponse
    /\ served = 0

NextWorker ==
    \E method \in Methods, path \in WorkerPaths, apiKey \in HeaderKeys,
       transcript \in Transcripts, id \in MeetingIds, outcome \in {"ok", "error"} :
        Fetch(method, path, apiKey, transcript, id, outcome)

SpecWorker == InitWorker /\ [][NextWorker]_vars

\* the settings page over the installer: downloads start from the button only
InitUi ==
    /\ InitCommon
    /\ isPackaged = FALSE
    /\ audioFiles = {}
    /\ exeFiles = {}
    /\ settingsFile = NoSettings
    /\ InitModelsDir

NextUi ==
    \/ \E k \in Slots, n \in {"ggml-base.en.bin", "ggml-tiny.en.bin", ""} :
            ClickDownload(k, n)
    \/ \E k \in Slots : ListingSettles(k)
    \/ \E k \in Slots : InvokeDownloadModel(k)
    \/ \E d \in Slots, o \in {"ok", "network", "http"} : FetchSettles(d, o)
    \/ \E d \in Slots, o \in {"written", "aborted", "denied", "partial"} : BodySettles(d, o)
    \/ \E k \in Slots : DownloadReplied(k)
    \/ \E k \in Slots : RefreshSettles(k)

SpecUi == InitUi /\ [][NextUi]_vars

\* the installer beside the pipeline: overlapping downloads while a
\* transcription runs, with the settings file absent or unparseable (the client
\* then takes the default model of the models directory)
InitInstall ==
    /\ InitCommon
    /\ isPackaged = FALSE
    /\ audioFiles = AudioPaths
    /\ exeFiles = {resourcesPath(FALSE) \o <<"whisper-cli">>}
    /\ settingsFile \in {NoSettings, GarbageSettings}
    /\ InitModelsDir

NextInstall ==
    \/ \E d \in Slots, n \in {"ggml-base.en.bin", "ggml-tiny.en.bin"} : DownloadModel(d, n)
    \/ \E d \in Slots, o \in {"ok", "network"} : FetchSettles(d, o)
    \/ \E d \in Slots, o \in {"written", "denied", "partial"} : BodySettles(d, o)
    \/ \E a \in AudioPaths, o \in {"started", "failed"} : TranscribeAudio("t1", a, o)
    \/ ChildError("t1")
    \/ \E code \in ExitCodes \cup {SpawnErrno} : ChildClose("t1", code)

SpecInstall == InitInstall /\ [][NextInstall]_vars

\* the model indicator beside the installer and the pipeline: every kind of
\* settings file, model files appearing through downloads
InitCurrent ==
    /\ InitCommon
    /\ isPackaged = FALSE
    /\ audioFiles = AudioPaths
    /\ exeFiles = {resourcesPath(FALSE) \o <<"whisper-cli">>}
    /\ settingsFile \in {NoSettings, GarbageSettings, SettingsObject({}),
                          SettingsObject({"ggml-tiny.en.bin"})}
    /\ InitModelsDir

NextCurrent ==
    \/ GetCurrentModel
    \/ \E m \in {{}, {"ggml-tiny.en.bin"}}, o \in {"written", "partial"} : SaveSettings(m, o)
    \/ \E n \in {"ggml-base.en.bin", "ggml-tiny.en.bin"} : DownloadModel("d1", n)
    \/ \E o \in {"ok", "network"} : FetchSettles("d1", o)
    \/ \E o \in {"written", "denied"} : BodySettles("d1", o)
    \/ \E a \in AudioPaths : TranscribeAudio("t1", a, "started")
    \/ ChildClose("t1", "0")

SpecCurrent == InitCurrent /\ [][NextCurrent]_vars

\* concurrent transcriptions: two requests in flight at once, for the saved
\* recording and for uploaded files, every file present
InitConcurrent ==
    /\ envWhisperPath = {}
    /\ isPackaged = FALSE
    /\ modelsDirExists = TRUE
    /\ audioFiles = AudioPaths \cup UploadPaths
    /\ exeFiles = {resourcesPath(FALSE) \o <<"whisper-cli">>}
    /\ settingsFile = NoSettings
    /\ modelFiles = [p \in ModelFilePaths |->
                        IF p = Resolve(<<DefaultModel>>) THEN "complete" ELSE "absent"]
    /\ sidecarJson = [p \in {jsonPath(a) : a \in AudioPaths \cup UploadPaths} |-> NoJson]
    /\ sidecarTxt = [p \in {txtPath(a) : a \in AudioPaths \cup UploadPaths} |-> {}]
    /\ call = [c \in Calls |-> IdleCall]
    /\ requests = 0
    /\ download = [d \in Slots |-> IdleDownload]
    /\ fetches = [n \in RequestNames |-> 0]
    /\ downloads = 0
    /\ listing = NoResult
    /\ listings = 0
    /\ saved = NothingSaved
    /\ saves = 0
    /\ InitUiIdle
    /\ InitCurrentIdle
    /\ InitPageIdle
    /\ InitAudioIdle
    /\ InitWorkerIdle

NextConcurrent ==
    \/ \E c \in Calls, a \in AudioPaths \cup UploadPaths : TranscribeAudio(c, a, "started")
    \/ \E c \in Calls, doc \in {EmptyJson} \cup {j \in JsonObjects : j.text = {}} :
            EngineWriteJson(c, doc)
    \/ \E c \in Calls, text \in TxtWrites : EngineWriteTxt(c, text)
    \/ \E c \in Calls, code \in {"0", "1"} : ChildClose(c, code)

SpecConcurrent == InitConcurrent /\ [][NextConcurrent]_vars

\* the quantizer alone: mono captures over the wide sample values
InitEncode ==
    /\ InitMain
    /\ InitDesktop
    /\ InitWorkerIdle
    /\ conv \in {[IdleConv EXCEPT !.audioBlob = CaptureBlob(<<samples>>, ContextSampleRate)] :
                    samples \in UNION {[1..n -> EncodeValues] : n \in 0..MaxFrames}}
    /\ conversions = 0

SpecEncode == InitEncode /\ [][NextAudio]_vars

\* the catalog listing: the models directory absent, or holding any of a
\* catalog file, another catalog file and a file that differs from it in case
InitListing ==
    /\ InitCommon
    /\ isPackaged = FALSE
    /\ audioFiles = {}
    /\ exeFiles = {}
    /\ settingsFile = NoSettings
    /\ modelsDirExists \in BOOLEAN
    /\ \E present \in SUBSET {modelsDir \o <<n>> :
                                n \in {"ggml-base.en.bin", "ggml-tiny.en.bin", UpperCaseModel}} :
            /\ (~modelsDirExists => present = {})
            /\ modelFiles = [p \in ModelFilePaths |->
                                IF p \in present THEN "complete" ELSE "absent"]

SpecListing == InitListing /\ [][NextModels]_vars

\* the pipeline and the files it reads: every combination of audio, model and
\* engine presence, the engine's output and every way its process ends, with
\* recordings deleted by their own handler in between
NextFiles ==
    \/ \E a \in AudioPaths, o \in {"started", "failed", "threw"} : TranscribeAudio("t1", a, o)
    \/ \E doc \in {GarbageJson} \cup {j \in JsonObjects : j.text = {}} :
            EngineWriteJson("t1", doc)
    \/ \E text \in TxtWrites : EngineWriteTxt("t1", text)
    \/ ChildError("t1")
    \/ \E code \in ExitCodes \cup {SpawnErrno} : ChildClose("t1", code)
    \/ \E a \in AudioPaths : DeleteRecording(a)

SpecFiles == InitTranscribe /\ [][NextFiles]_vars

\* ================================================================ claims

\* the model select beside the download button: 'change' events while a click
\* on the button is handled
NextSelect ==
    \/ \E n \in {"ggml-base.en.bin", "ggml-tiny.en.bin"} : SelectChange(n)
    \/ ChangeRefreshSettles
    \/ \E n \in {"ggml-base.en.bin", ""} : ClickDownload("d1", n)
    \/ ListingSettles("d1")
    \/ InvokeDownloadModel("d1")
    \/ \E o \in {"ok", "network"} : FetchSettles("d1", o)
    \/ \E o \in {"written", "denied"} : BodySettles("d1", o)
    \/ DownloadReplied("d1")
    \/ RefreshSettles("d1")

SpecSelect == InitUi /\ [][NextSelect]_vars

\* the renderer's page with an empty models directory and no recording saved
InitPage ==
    /\ InitCommon
    /\ isPackaged = FALSE
    /\ audioFiles = {}
    /\ exeFiles = {}
    /\ settingsFile = NoSettings
    /\ modelsDirExists = TRUE
    /\ modelFiles = [p \in ModelFilePaths |-> "absent"]

\* the transcript panel: transcriptions of a stopped recording, an uploaded
\* file and a listed recording completing in any order
NextPanel ==
    \/ ProcessRecording
    \/ HandleUploadAudio
    \/ HandleTranscribeRecording
    \/ \E reply \in PanelReplies : RecordingTranscribed(reply)
    \/ \E reply \in PanelReplies : UploadTranscribed(reply)
    \/ \E reply \in PanelReplies : ListTranscribed(reply)
    \/ StateImported
    \/ \E h \in {"upload", "list"} : UiImported(h)

SpecPanel == InitPage /\ [][NextPanel]_vars

\* the recording controls: clicks on the record and pause buttons, the
\* confirmation dialog, and the microphone and recorder events they lead to
NextRecorder ==
    \/ ClickRecord
    \/ \E i \in 1..MaxStarts, o \in {"granted", "denied"} : MicSettles(i, o)
    \/ ClickPause
    \/ ConfirmStop
    \/ CancelStop
    \/ \E i \in 1..MaxStarts : OnStop(i)

SpecRecorder == InitPage /\ [][NextRecorder]_vars

\* the download button with the renderer's event loop running: a reply that
\* has arrived is handled, and the refresh after a success settles (the
\* handlers of list-available-models and get-current-model always reply)
NextButton ==
    \/ \E k \in Slots, n \in {"ggml-base.en.bin", ""} : ClickDownload(k, n)
    \/ \E k \in Slots : ListingSettles(k)
    \/ \E k \in Slots : InvokeDownloadModel(k)
    \/ \E d \in Slots, o \in {"ok", "network"} : FetchSettles(d, o)
    \/ \E d \in Slots, o \in {"written", "denied"} : BodySettles(d, o)
    \/ \E k \in Slots : DownloadReplied(k)
    \/ \E k \in Slots : RefreshSettles(k)

SpecButton ==
    /\ InitPage
    /\ [][NextButton]_vars
    /\ \A k \in Slots : WF_vars(DownloadReplied(k)) /\ WF_vars(RefreshSettles(k))

\* the pipeline against the clock: the engine's streams and output arriving
\* while the time goes by, and every way its process ends
NextClock ==
    \/ \E a \in AudioPaths, o \in {"started", "failed", "threw"} : TranscribeAudio("t1", a, o)
    \/ Tick("t1")
    \/ \E k \in StdoutChunks : StdoutData("t1", k)
    \/ \E k \in StderrChunks : StderrData("t1", k)
    \/ \E doc \in {GarbageJson} \cup
                  {j \in JsonObjects : j.text = {} /\ j.transcription = {<<"hi">>}} :
            EngineWriteJson("t1", doc)
    \/ ChildError("t1")
    \/ \E code \in ExitCodes \cup {SpawnErrno} : ChildClose("t1", code)

SpecClock == InitTranscribe /\ [][NextClock]_vars

\* ---------------------------------------------------------------- C1
\* C1: a transcribe call whose audio path does not exist returns a failure with
\* the audio-not-found error and spawns nothing, whatever the state of the
\* model file and of the engine executable.
C1_MissingAudioFails ==
    \A c \in Calls :
        (call[c].pc # "idle" /\ ~call[c].seen.audio) =>
            /\ call[c].pc = "returned"
            /\ call[c].result.success = FALSE
            /\ Contains(call[c].result.error, <<"Audio file not found: ">> \o call[c].audio)
            /\ call[c].spawnCalls = 0
            /\ call[c].child = "none"

C1_Witness ==
    \E c \in Calls :
        /\ call[c].pc = "returned"
        /\ ~call[c].seen.audio /\ call[c].seen.model /\ call[c].seen.exe
        /\ call[c].result.success = FALSE

\* ---------------------------------------------------------------- C2
\* C2: with the audio and the model present and the engine executable absent,
\* transcribe returns success with the fixed placeholder transcript, duration 0
\* and no segments, and spawns nothing.
C2_MissingEnginePlaceholder ==
    \A c \in Calls :
        (call[c].pc # "idle" /\ call[c].seen.audio /\ call[c].seen.model
            /\ ~call[c].seen.exe) =>
            /\ call[c].pc = "returned"
            /\ "success" \in DOMAIN call[c].result
            /\ call[c].result.success = TRUE
            /\ call[c].result.transcript =
                <<"This is a placeholder transcript generated by Privote.", "\n", "\n",
                  "To enable real transcription, you need to integrate Whisper.cpp:">>
            /\ call[c].result.duration = 0
            /\ call[c].result.segments = <<>>
            /\ call[c].spawnCalls = 0
            /\ call[c].child = "none"

C2_Witness ==
    \E c \in Calls :
        /\ call[c].pc = "returned"
        /\ call[c].seen.audio /\ call[c].seen.model /\ ~call[c].seen.exe
        /\ call[c].result.success

\* ---------------------------------------------------------------- C3
\* C3: with the audio present and the model file missing, transcribe returns a
\* failure whether or not the engine executable exists; no result of a call made
\* while the model file is missing carries the placeholder transcript.
C3_MissingModelFails ==
    \A c \in Calls :
        (call[c].pc # "idle" /\ call[c].seen.audio /\ ~call[c].seen.model) =>
            /\ call[c].pc = "returned"
            /\ call[c].result.success = FALSE
            /\ Contains(call[c].result.error, <<"Whisper model not found at ">>)
            /\ call[c].spawnCalls = 0

C3_Witness ==
    \E c \in Calls :
        /\ call[c].pc = "returned"
        /\ call[c].seen.audio /\ ~call[c].seen.model /\ ~call[c].seen.exe
        /\ call[c].result.success = FALSE

\* ---------------------------------------------------------------- C4
\* whether the call took the placeholder path
TookPlaceholder(c) ==
    call[c].seen.audio /\ call[c].seen.model /\ ~call[c].seen.exe

\* whether the fallback chain of the call resolved a non-empty transcript
ChainResolved(c) == \E t \in call[c].chain : Truthy(t)

\* C4 as stated: a returned result is a success if and only if the fallback
\* chain resolved a non-empty transcript.
C4_SuccessIffChain ==
    \A c \in Calls :
        call[c].pc = "returned" => (call[c].result.success <=> ChainResolved(c))

\* C4 as amended: a returned result is a success if and only if the call took
\* the placeholder path (audio and model present, engine executable absent) or
\* the fallback chain resolved a non-empty transcript; a success of the second
\* kind carries the transcript the chain resolved.
C4_SuccessIffChainOrPlaceholder ==
    \A c \in Calls :
        call[c].pc = "returned" =>
            /\ call[c].result.success <=> (TookPlaceholder(c) \/ ChainResolved(c))
            /\ (call[c].result.success /\ ~TookPlaceholder(c)) =>
                    call[c].result.transcript \in call[c].chain

C4_Witness ==
    \E c \in Calls :
        /\ call[c].pc = "returned"
        /\ call[c].closeCode = {"0"}
        /\ call[c].chain = {<<>>}
        /\ call[c].result.success = FALSE

\* ---------------------------------------------------------------- C5
\* the sidecars and the captured stdout of a call whose child has closed
JsonOf(c) == sidecarJson[jsonPath(call[c].audio)]
TxtOf(c) == sidecarTxt[txtPath(call[c].audio)]

\* the text a structured sidecar yields: its transcription, else its text
StructuredText(doc) ==
    IF doc.kind # "object" THEN <<>>
    ELSE IF doc.transcription # {} /\ TheValue(doc.transcription) # <<>>
        THEN TheValue(doc.transcription)
    ELSE IF doc.text # {} THEN TheValue(doc.text)
    ELSE <<>>

\* the text a plain-text sidecar yields
PlainText(txt) == IF txt = {} THEN <<>> ELSE trim(TheValue(txt))

\* C5: after exit code 0 the transcript comes from the first of structured
\* sidecar, plain-text sidecar and stdout that yields a non-empty string.
C5_FallbackOrder ==
    \A c \in Calls :
        (call[c].pc = "returned" /\ call[c].child = "closed" /\ call[c].chain # {}) =>
            LET j == StructuredText(JsonOf(c))
                t == PlainText(TxtOf(c))
                o == trim(call[c].stdout)
            IN /\ j # <<>> => (call[c].result.success /\ call[c].result.transcript = j)
               /\ (j = <<>> /\ t # <<>>) =>
                    (call[c].result.success /\ call[c].result.transcript = t)
               /\ (j = <<>> /\ t = <<>> /\ o # <<>>) =>
                    (call[c].result.success /\ call[c].result.transcript = o)

\* a structured sidecar with text, a plain-text sidecar with other text
C5_Witness ==
    \E c \in Calls :
        /\ call[c].pc = "returned" /\ call[c].child = "closed" /\ call[c].chain # {}
        /\ StructuredText(JsonOf(c)) = <<"hi">>
        /\ PlainText(TxtOf(c)) = <<"tx">>
        /\ call[c].result.success
        /\ call[c].result.transcript = <<"hi">>

\* ---------------------------------------------------------------- C6
\* C6 as stated: after exit code 0, when the structured sidecar's text, the
\* plain-text sidecar and stdout are each absent, empty or whitespace-only, the
\* result is a failure.
C6_BlankIsFailure ==
    \A c \in Calls :
        (call[c].pc = "returned" /\ call[c].child = "closed" /\ call[c].chain # {}
            /\ trim(StructuredText(JsonOf(c))) = <<>>
            /\ PlainText(TxtOf(c)) = <<>>
            /\ trim(call[c].stdout) = <<>>) =>
            call[c].result.success = FALSE

\* ---------------------------------------------------------------- C7
\* C7: when a child that started closes with a non-zero code, the result is a
\* failure whose message holds the code, the captured stderr and the captured
\* stdout, and the handler touches no sidecar.
C7_NonZeroExitFails ==
    \A c \in Calls :
        \A code \in call[c].closeCode :
            (code \in ExitCodes /\ code # "0") =>
                /\ call[c].pc = "returned"
                /\ call[c].result.success = FALSE
                /\ Contains(call[c].result.error, <<code>>)
                /\ Contains(call[c].result.error, <<"\nStderr: ">> \o call[c].stderr)
                /\ Contains(call[c].result.error, <<"\nStdout: ">> \o call[c].stdout)
                /\ call[c].probed = {}
                /\ call[c].chain = {}

\* exit code 1 with output on both streams and a sidecar holding a transcript
C7_Witness ==
    \E c \in Calls :
        /\ call[c].closeCode = {"1"}
        /\ call[c].stderr # <<>> /\ call[c].stdout # <<>>
        /\ StructuredText(JsonOf(c)) = <<"hi">>
        /\ call[c].result.success = FALSE

\* ---------------------------------------------------------------- C8
WellFormed(r) ==
    /\ "success" \in DOMAIN r
    /\ r.success \in BOOLEAN
    /\ ~r.success => ("error" \in DOMAIN r /\ Len(r.error) > 0)

\* C8: transcribe never throws or rejects: what it returns, and what the IPC
\* handler replies, has a boolean success, and a failure has a non-empty error.
C8_AlwaysAResult ==
    \A c \in Calls :
        call[c].pc = "returned" =>
            /\ WellFormed(call[c].result)
            /\ WellFormed(call[c].reply)
            /\ call[c].reply.success = call[c].result.success

\* the audio file went away while the engine ran: the handler's stat throws
C8_Witness ==
    \E c \in Calls :
        /\ call[c].pc = "returned"
        /\ call[c].closeCode = {"0"}
        /\ call[c].seen.audio /\ ~existsAudio(call[c].audio)
        /\ call[c].chain = {}
        /\ call[c].result.success = FALSE
        /\ Contains(call[c].result.error, <<"Failed to parse whisper output: ">>)

\* ---------------------------------------------------------------- C9
\* C9 as stated: download-model for a name that is not in the catalog returns the
\* unknown-model failure, whatever the models directory holds.
C9_UnknownModelFails ==
    \A d \in Slots :
        (download[d].pc = "returned" /\ download[d].modelName \notin CatalogNames) =>
            /\ download[d].reply.success = FALSE
            /\ Contains(download[d].reply.error, <<"Unknown model: ">>)

\* ---------------------------------------------------------------- C10
ModelFileOf(d) == modelFiles[modelsDir \o <<download[d].modelName>>]

\* two requests for one catalog model, the second made after the first returned
Sequential(d, e) ==
    /\ download[d].pc = "returned" /\ download[e].pc = "returned"
    /\ download[d].modelName = download[e].modelName
    /\ download[d].modelName \in CatalogNames
    /\ download[d].alone /\ download[e].alone
    /\ download[e].order = download[d].order + 1

\* C10: a request that finds the target file returns success without fetching;
\* of two sequential requests for a catalog model that was absent, when the
\* first succeeds so does the second, exactly one of them fetched, and the file
\* is the one the first wrote.
C10_DownloadIdempotent ==
    /\ \A d \in Slots :
        (download[d].pc # "idle" /\ download[d].existed) =>
            /\ download[d].pc = "returned"
            /\ download[d].reply.success
            /\ ~download[d].fetched
    /\ \A d, e \in Slots :
        (Sequential(d, e) /\ ~download[d].existed /\ download[d].reply.success) =>
            /\ download[e].reply.success
            /\ download[d].fetched /\ ~download[e].fetched
            /\ ModelFileOf(d) = "complete"

C10_Witness ==
    \E d, e \in Slots :
        /\ Sequential(d, e)
        /\ ~download[d].existed
        /\ download[d].reply.success /\ download[e].reply.success
        /\ fetches[download[d].modelName] = 1

\* ---------------------------------------------------------------- C11
\* a file of that name is in the models directory
FileInModelsDir(n) ==
    /\ modelsDirExists
    /\ modelsDir \o <<n>> \in DOMAIN modelFiles
    /\ modelFiles[modelsDir \o <<n>>] # "absent"

\* a download-model request for that name has returned success
DownloadSucceeded(n) ==
    \E d \in Slots :
        /\ download[d].pc = "returned"
        /\ download[d].modelName = n
        /\ download[d].reply.success

\* C11: every list-available-models call reports a catalog model as not
\* available while no file of that name is in the models directory, and as
\* available once a download-model request for it has returned success.
C11_ListingFollowsDownloads ==
    [][listings' = listings + 1 =>
        /\ listing'.success
        /\ \A i \in 1..Len(Catalog) :
            /\ listing'.models[i].name = Catalog[i]
            /\ ~FileInModelsDir(Catalog[i]) => ~listing'.models[i].available
            /\ DownloadSucceeded(Catalog[i]) => listing'.models[i].available]_vars

\* a listing made after a download wrote a model that was absent before, with
\* another catalog model still absent
C11_Witness ==
    /\ listings = 2
    /\ \E d \in Slots, i, j \in 1..Len(Catalog) :
        /\ download[d].pc = "returned"
        /\ download[d].modelName = Catalog[i]
        /\ ~download[d].existed /\ download[d].fetched
        /\ download[d].reply.success
        /\ listing.models[i].available
        /\ ~FileInModelsDir(Catalog[j])
        /\ ~listing.models[j].available

\* ---------------------------------------------------------------- C12
\* C12 as stated: a download-model request that ends in failure leaves no file
\* under the final model name (here: the only request that ever fetched that
\* model, so that nothing else can have written the file).
C12_FailedDownloadLeavesNoFile ==
    \A d \in Slots :
        (/\ download[d].pc = "returned"
         /\ download[d].fetched
         /\ ~download[d].reply.success
         /\ fetches[download[d].modelName] = 1) =>
            ~FileInModelsDir(download[d].modelName)

\* ---------------------------------------------------------------- C13
\* the file name of a model path
basename(p) == p[Len(p)]

\* the model X that a save-settings request in force asks for
SavedModel == {m \in saved.whisperModel : saved.done /\ m # ""}

\* C13 as stated: after save-settings with whisperModel = X has returned
\* success, every transcribe-audio request started afterwards validates model X
\* and passes model X to the engine.
C13_ModelReadFresh ==
    [][\A c \in Calls, X \in SavedModel :
            (requests' = requests + 1 /\ call'[c] # call[c]) =>
                /\ basename(call'[c].client.modelPath) = X
                /\ \A a \in call'[c].args : basename(a.m) = X]_vars

\* ---------------------------------------------------------------- C14
\* C14: within one call validation comes before the spawn and the spawn before
\* the parsing: a call spawns at most one engine process, exactly one when the
\* audio, the model and the executable were all seen to exist and none
\* otherwise, hands the spawn the paths it validated, and touches the sidecars
\* only once the process of that very call has emitted 'close'.
C14_ValidateSpawnParse ==
    \A c \in Calls :
        /\ call[c].spawnCalls \in {0, 1}
        /\ call[c].pc # "idle" =>
                (call[c].spawnCalls = 1 <=>
                    (call[c].seen.audio /\ call[c].seen.model /\ call[c].seen.exe))
        /\ call[c].child # "none" => call[c].spawnCalls = 1
        /\ call[c].args # {} <=> call[c].spawnCalls = 1
        /\ \A a \in call[c].args :
                a.f = call[c].audio /\ a.m = call[c].client.modelPath
        /\ (call[c].probed # {} \/ call[c].chain # {}) =>
                /\ call[c].spawnCalls = 1
                /\ call[c].child = "closed"
                /\ call[c].closeCode = {"0"}

\* a call that validated, spawned once and read both sidecars after the close
C14_Witness ==
    \E c \in Calls :
        /\ call[c].pc = "returned"
        /\ call[c].seen.audio /\ call[c].seen.model /\ call[c].seen.exe
        /\ call[c].spawnCalls = 1
        /\ call[c].child = "closed"
        /\ call[c].probed = {"json", "txt"}

\* ---------------------------------------------------------------- C15
\* the candidates of the claim in its order: the caller-supplied path (the
\* handlers supply none), the WHISPER_CPP_PATH override when set, the
\* resource-bundle path, a system install location
EngineCandidates ==
    (IF OptTruthy(envWhisperPath) THEN <<TheValue(envWhisperPath)>> ELSE <<>>)
        \o <<resourcesPath(isPackaged) \o <<"whisper-cli">>,
             <<"/usr/local/bin", "whisper-cli">>>>

ExistingCandidates == SelectSeq(EngineCandidates, LAMBDA p : existsExe(p))

\* C15 as stated: the engine path a call works with is the first candidate
\* that exists on disk, whenever one exists.
C15_FirstExistingCandidate ==
    \A c \in Calls :
        (call[c].pc # "idle" /\ ExistingCandidates # <<>>) =>
            call[c].client.whisperPath = Head(ExistingCandidates)

\* ---------------------------------------------------------------- C16
\* the child of the call emits 'error' or 'close' in this step
ChildEvent(c) ==
    /\ call[c].child \in {"running", "spawnFailed"}
    /\ call'[c].child \in {"errored", "closed"}

\* C16: there is no deadline.  A call that spawned the engine stays pending
\* through every step that is not an 'error' or 'close' event of its own child,
\* however far the clock advances, and returns in the very step in which that
\* event arrives; a pending call always has a child whose event is still to
\* come.
C16_ReturnsOnlyOnChildEvent ==
    [][\A c \in Calls :
        /\ (call[c].pc = "awaiting" /\ ~ChildEvent(c)) => call'[c].pc = "awaiting"
        /\ (call[c].pc = "awaiting" /\ ChildEvent(c)) => call'[c].pc = "returned"
        /\ call'[c].pc = "awaiting" =>
                call'[c].child \in {"running", "spawnFailed"}]_vars

\* a call that waited through every tick of the clock and returned on 'close'
C16_Witness ==
    \E c \in Calls :
        /\ call[c].pc = "returned"
        /\ call[c].child = "closed"
        /\ call[c].closeCode = {"0"}
        /\ call[c].ms = MaxTicks * TickMs

\* ---------------------------------------------------------------- C17
\* C17: when a step of convertToWav fails (context creation, reading the blob,
\* decoding, channel merge or encoding), the call returns the blob it was given
\* and does not throw.
C17_FailureReturnsInput ==
    (conv.pc = "returned" /\ conv.failedAt # "") =>
        /\ ~conv.threw
        /\ conv.result = {conv.audioBlob}

\* a stereo capture that decoded and then failed to encode
C17_Witness ==
    /\ conv.pc = "returned"
    /\ conv.failedAt = "encode"
    /\ conv.audioBlob.kind = "capture"
    /\ Len(conv.audioBlob.audio) = 2
    /\ conv.result = {conv.audioBlob}

\* ---------------------------------------------------------------- C18
\* C18: for a mono or stereo capture that decodes to n frames, whatever rate it
\* was recorded at, the normalizer returns exactly 44 + 2n bytes: a RIFF/WAVE
\* header declaring ChunkSize 36 + 2n, a 16-byte PCM format chunk with 1
\* channel, sample rate 16000, byte rate 32000, block align 2 and 16 bits per
\* sample, and a data chunk of size 2n.
C18_CanonicalWav ==
    (conv.pc = "returned" /\ conv.failedAt = "" /\ conv.audioBlob.kind = "capture") =>
        /\ conv.result # {}
        /\ \A out \in conv.result :
            LET n == Len(conv.audioBlob.audio[1])
                b == out.bytes
            IN /\ out.type = "audio/wav"
               /\ Len(b) = 44 + 2 * n
               /\ SubSeq(b, 1, 4) = <<82, 73, 70, 70>>
               /\ getUint32(b, 4) = 36 + 2 * n
               /\ SubSeq(b, 9, 12) = <<87, 65, 86, 69>>
               /\ SubSeq(b, 13, 16) = <<102, 109, 116, 32>>
               /\ getUint32(b, 16) = 16
               /\ getUint16(b, 20) = 1
               /\ getUint16(b, 22) = 1
               /\ getUint32(b, 24) = 16000
               /\ getUint32(b, 28) = 2 * 16000
               /\ getUint16(b, 32) = 2
               /\ getUint16(b, 34) = 16
               /\ SubSeq(b, 37, 40) = <<100, 97, 116, 97>>
               /\ getUint32(b, 40) = 2 * n

\* a stereo capture of the most frames, recorded at 48 kHz, normalized
C18_Witness ==
    /\ conv.pc = "returned" /\ conv.failedAt = ""
    /\ conv.audioBlob.kind = "capture"
    /\ conv.audioBlob.rate = 48000
    /\ Len(conv.audioBlob.audio) = 2
    /\ Len(conv.audioBlob.audio[1]) = MaxFrames
    /\ \E out \in conv.result : Len(out.bytes) = 44 + 2 * MaxFrames

\* ---------------------------------------------------------------- C19
\* C19 as stated: normalizing a blob that the normalizer itself returned
\* (mono, 16 kHz, 16-bit PCM WAV) returns the same bytes, whatever the sample
\* values.
C19_RenormalizeIdentical ==
    (conv.pc = "returned" /\ conv.failedAt = "" /\ conv.audioBlob.kind = "wav") =>
        \A out \in conv.result : out.bytes = conv.audioBlob.bytes

\* ---------------------------------------------------------------- C20
\* the last request went to an /api/* path with a secret set and without the
\* matching key
Unkeyed ==
    /\ served > 0
    /\ response.path # <<>> /\ Head(response.path) = "api"
    /\ \E k \in API_KEY : k # <<>> /\ response.apiKey # {k}

\* without a secret (unset or empty) no request is answered 401, and every
\* request that is not a preflight reaches its route
C20_OpenWithoutSecret ==
    (served > 0 /\ ~OptTruthy(API_KEY)) =>
        /\ response.status # 401
        /\ response.method # "OPTIONS" =>
                response.ran = routeOf(response.method, response.path)

C21_OneDownloadInFlight ==
    /\ \A d, e \in Slots : (InFlight(d) /\ InFlight(e)) => d = e
    /\ \A k, l \in Slots : (Sent(k) /\ Sent(l)) => k = l

\* ---------------------------------------------------------------- C22
\* the model file the engine of the call was given
EngineModel(c) == Resolve(call[c].client.modelPath)

\* a download-model request puts bytes into that file in this step
WritesTo(p) ==
    \E d \in Slots :
        /\ download[d].pc = "reading"
        /\ download'[d].wrote
        /\ modelsDir \o <<download[d].modelName>> = p

\* C22 as stated: whatever way download-model and transcribe-audio requests
\* interleave, while the engine of a transcription runs the model file it was
\* given is completely written, and no download-model request writes to it.
C22_NoWriteUnderEngine ==
    [][\A c \in Calls :
        /\ call'[c].child = "running" =>
                modelFiles'[Resolve(call'[c].client.modelPath)] = "complete"
        /\ call[c].child = "running" => ~WritesTo(EngineModel(c))]_vars

\* ---------------------------------------------------------------- C23
\* C23 as stated: in every state of the file system and of the settings, a
\* successful get-current-model reply names the configured model (the default
\* when none is configured or no settings file exists) and its available flag
\* is true exactly when that model's file exists in the models directory at the
\* time of the request.
C23_AvailableIsPresence ==
    [][(queries' = queries + 1 /\ current'.success) =>
        /\ current'.model = configuredModel
        /\ current'.available <=> FileInModelsDir(configuredModel)]_vars

\* ---------------------------------------------------------------- C24
\* the call failed for a missing model
ModelNotFound(r) ==
    /\ "success" \in DOMAIN r
    /\ ~r.success
    /\ Contains(r.error, <<"Whisper model not found at ">>)

\* C24 as stated: the model file a transcribe-audio request validates is the
\* file of the configured name inside the models directory, and a request made
\* while get-current-model reports the configured model as available (its file
\* being in the models directory) does not fail with model-not-found.
C24_ModelResolvedInModelsDir ==
    [][\A c \in Calls :
        (requests' = requests + 1 /\ call'[c] # call[c]
            /\ settingsFile.kind # "garbage") =>
            /\ Resolve(call'[c].client.modelPath) = modelsDir \o <<configuredModel>>
            /\ (getCurrentModel.available /\ FileInModelsDir(configuredModel)) =>
                    ~ModelNotFound(call'[c].result)]_vars

\* ---------------------------------------------------------------- C25
\* C25 as stated: the duration of a successful result of an engine run is the
\* time from the spawn to the end of the output parsing (in seconds, to two
\* decimals).
C25_DurationSpansParsing ==
    \A c \in Calls :
        (call[c].pc = "returned" /\ call[c].child = "closed"
            /\ "success" \in DOMAIN call[c].result /\ call[c].result.success) =>
            \A t \in call[c].parsedAt : call[c].result.duration = toFixed2(t)

\* ---------------------------------------------------------------- C26
\* C26 as stated: transcribe calls for different audio paths derive different
\* structured and plain-text sidecar paths.
C26_SidecarPathsDistinct ==
    \A c, e \in Calls :
        (call[c].pc # "idle" /\ call[e].pc # "idle" /\ call[c].audio # call[e].audio) =>
            /\ jsonPath(call[c].audio) # jsonPath(call[e].audio)
            /\ txtPath(call[c].audio) # txtPath(call[e].audio)

\* ---------------------------------------------------------------- C27
\* C27: no step of a transcribe-audio call (its validation, the events of its
\* engine process, the output of that process, its 'close' and 'error'
\* handlers) deletes or changes an audio file, the settings file or a file of
\* the models directory.
C27_TranscribeLeavesFilesAlone ==
    [][(call' # call \/ sidecarJson' # sidecarJson \/ sidecarTxt' # sidecarTxt) =>
        /\ audioFiles' = audioFiles
        /\ settingsFile' = settingsFile
        /\ modelFiles' = modelFiles
        /\ modelsDirExists' = modelsDirExists]_vars

\* an engine run that failed with exit code 1 after writing a sidecar, the
\* audio file and the model file still in place
C27_Witness ==
    \E c \in Calls :
        /\ call[c].pc = "returned"
        /\ call[c].closeCode = {"1"}
        /\ existsJson(jsonPath(call[c].audio))
        /\ existsAudio(call[c].audio)
        /\ existsModel(call[c].client.modelPath)

\* ---------------------------------------------------------------- C28
IsNaN(s) == s.d = 0 /\ s.n = 0

\* C28: every sample of a mono capture is written as a 16-bit value without
\* wraparound: -32768 for a sample at or below -1, 32767 for one at or above 1,
\* the sample times 32768 cut toward zero for a negative one and the sample
\* times 32767 cut toward zero for a non-negative one, whatever the value
\* (out of range and infinite values included; NaN is written as 0).
C28_QuantizedInRange ==
    (conv.pc = "returned" /\ conv.failedAt = "" /\ conv.audioBlob.kind = "capture"
        /\ Len(conv.audioBlob.audio) = 1) =>
        \A out \in conv.result :
            \A i \in 1..Len(conv.audioBlob.audio[1]) :
                LET s == conv.audioBlob.audio[1][i]
                    v == getInt16(out.bytes, 44 + 2 * (i - 1))
                IN /\ v \in -32768..32767
                   /\ out.bytes[44 + 2 * i - 1] \in 0..255
                   /\ out.bytes[44 + 2 * i] \in 0..255
                   /\ IsNaN(s) => v = 0
                   /\ (~IsNaN(s) /\ s.n <= -s.d) => v = -32768
                   /\ (~IsNaN(s) /\ s.n >= s.d) => v = 32767
                   /\ (s.d > 0 /\ -s.d < s.n /\ s.n < 0) =>
                        (s.n * 32768 <= v * s.d /\ v * s.d < s.n * 32768 + s.d)
                   /\ (s.d > 0 /\ 0 <= s.n /\ s.n < s.d) =>
                        (s.n * 32767 - s.d < v * s.d /\ v * s.d <= s.n * 32767)

\* a capture holding a sample below -1 and one above 1, encoded
C28_Witness ==
    /\ conv.pc = "returned" /\ conv.failedAt = ""
    /\ conv.audioBlob.kind = "capture"
    /\ conv.audioBlob.audio = <<<<Float(-3, 2), Float(3, 2)>>>>
    /\ \E out \in conv.result :
            getInt16(out.bytes, 44) = -32768 /\ getInt16(out.bytes, 46) = 32767

\* ---------------------------------------------------------------- C29
\* C29: every list-available-models reply is a success that holds the five
\* catalog descriptors once each and in catalog order; a descriptor is marked
\* available exactly when the models directory exists and holds a file of
\* exactly that name (a name that differs in case does not count), so all are
\* marked unavailable when the directory does not exist.
C29_ListingIsCatalogWithPresence ==
    [][listings' = listings + 1 =>
        /\ listing'.success
        /\ [i \in 1..Len(listing'.models) |-> listing'.models[i].name] =
                <<"ggml-base.en.bin", "ggml-tiny.en.bin", "ggml-small.en.bin",
                  "ggml-medium.en.bin", "ggml-large-v2.bin">>
        /\ \A i \in 1..Len(listing'.models) :
                listing'.models[i].available <=>
                    FileInModelsDir(listing'.models[i].name)
        /\ ~modelsDirExists =>
                \A i \in 1..Len(listing'.models) : ~listing'.models[i].available]_vars

\* a listing of a directory that holds the base model and GGML-TINY.EN.BIN
\* but not ggml-tiny.en.bin
C29_Witness ==
    /\ listings > 0
    /\ modelFiles[modelsDir \o <<UpperCaseModel>>] # "absent"
    /\ modelFiles[modelsDir \o <<"ggml-tiny.en.bin">>] = "absent"
    /\ listing.models[1].available
    /\ ~listing.models[2].available

\* ---------------------------------------------------------------- C30
\* C30: a result carries segments only when the 'close' handler of that call
\* found a structured sidecar and parsed it to an object with segments, and
\* they are the segments of that sidecar; a placeholder result, and an engine
\* result whose structured sidecar was absent, empty or unparseable, carries
\* an empty segment list.
C30_SegmentsOnlyFromSidecar ==
    \A c \in Calls :
        (call[c].pc = "returned" /\ "success" \in DOMAIN call[c].result
            /\ call[c].result.success) =>
            /\ call[c].result.segments # <<>> =>
                    /\ call[c].closeCode = {"0"}
                    /\ "json" \in call[c].probed
                    /\ JsonOf(c).kind = "object"
                    /\ call[c].result.segments \in JsonOf(c).segments
            /\ TookPlaceholder(c) => call[c].result.segments = <<>>
            /\ (call[c].child = "closed" /\ JsonOf(c).kind # "object") =>
                    call[c].result.segments = <<>>

\* a result whose transcript came from the plain-text sidecar and whose
\* segments came from the structured one
C30_Witness ==
    \E c \in Calls :
        /\ call[c].pc = "returned" /\ call[c].closeCode = {"0"}
        /\ call[c].result.success
        /\ call[c].result.segments = <<Segment>>
        /\ StructuredText(JsonOf(c)) = <<>>
        /\ call[c].result.transcript = <<"tx">>

\* ---------------------------------------------------------------- C31
\* C31: when the promise of the refresh started by a 'change' event of the
\* model select resolves, and the listing succeeds, the download button is
\* disabled with the text 'Model Already Available' if the selected model is
\* present in the models directory, and enabled with the text 'Download Model'
\* otherwise.
C31_ButtonFollowsSelection ==
    [][(change.pc = "refreshing" /\ change'.pc = "idle" /\ listAvailableModels.success) =>
            downloadBtn' =
                IF FileInModelsDir(change.selectedModel)
                THEN [disabled |-> TRUE, text |-> AvailableLabel]
                ELSE [disabled |-> FALSE, text |-> DownloadLabel]]_vars

\* ---------------------------------------------------------------- C32
\* C32: a successful result of an engine run whose transcript was read from
\* the structured sidecar, or from the plain-text sidecar, was read from a
\* sidecar the child of that request has written.
C32_OutputOfThisRun ==
    \A c \in Calls :
        (call[c].pc = "returned" /\ call[c].child = "closed" /\ call[c].chain # {}
            /\ "success" \in DOMAIN call[c].result /\ call[c].result.success) =>
            LET j == StructuredText(JsonOf(c))
                t == PlainText(TxtOf(c))
            IN /\ j # <<>> => "json" \in call[c].wrote
               /\ (j = <<>> /\ t # <<>>) => "txt" \in call[c].wrote

\* ---------------------------------------------------------------- C33
\* C33: a request returns one result: while it stays the same request, a
\* returned call keeps its result and its reply through every later event of
\* its child, and the number of results it has returned is 1 once it has
\* returned and 0 before.
C33_OneTerminalResult ==
    [][\A c \in Calls :
            /\ call[c].returns = (IF call[c].pc = "returned" THEN 1 ELSE 0)
            /\ (call[c].pc = "returned" /\ requests' = requests) =>
                    /\ call'[c].pc = "returned"
                    /\ call'[c].result = call[c].result
                    /\ call'[c].reply = call[c].reply
                    /\ call'[c].returns = 1]_vars

\* a call settled by the 'error' event of its child whose 'close' event, with
\* the negative code, has come afterwards
C33_Witness ==
    \E c \in Calls :
        /\ call[c].pc = "returned"
        /\ call[c].child = "closed"
        /\ call[c].closeCode = {SpawnErrno}
        /\ call[c].result = Failure(SpawnFailedMessage(call[c].client.whisperPath))
        /\ call[c].returns = 1

\* ---------------------------------------------------------------- C34
\* C34: when the child of a request closes with code 0 and the audio file,
\* present at validation, is gone, the request returns a failure whose message
\* is that of the failed parse, and the handler has touched no sidecar; this
\* is so whatever the sidecars hold.
C34_DeletedAudioFails ==
    [][\A c \in Calls :
            (/\ call[c].pc = "awaiting" /\ call[c].child = "running"
             /\ call'[c].child = "closed" /\ call'[c].closeCode = {"0"}
             /\ ~existsAudio(call[c].audio)) =>
                /\ call'[c].pc = "returned"
                /\ "success" \in DOMAIN call'[c].result
                /\ call'[c].result.success = FALSE
                /\ Head(call'[c].result.error) = "Failed to parse whisper output: "
                /\ call'[c].probed = {}]_vars

\* such a request, whose child had written a structured sidecar with a
\* transcript before it exited 0
C34_Witness ==
    \E c \in Calls :
        /\ call[c].pc = "returned" /\ call[c].child = "closed"
        /\ call[c].closeCode = {"0"}
        /\ call[c].seen.audio /\ ~existsAudio(call[c].audio)
        /\ "json" \in call[c].wrote
        /\ StructuredText(JsonOf(c)) = <<"hi">>
        /\ call[c].result.success = FALSE
        /\ call[c].probed = {}

\* ---------------------------------------------------------------- C35
\* C35: whenever no handler is between its update of state.currentTranscript
\* and its update of the panel, the panel shows the text of
\* state.currentTranscript (and nothing while there is none).
C35_PanelShowsCurrent ==
    (\A h \in Handlers : ~Updated(h)) => shown = currentTranscript

\* ---------------------------------------------------------------- C36
\* C36: at most one recorder is capturing or paused at a time, and when
\* recording has been stopped and no call of startRecording is waiting for the
\* microphone, no recorder is capturing or paused and every stream that went
\* live is released or has its release pending in its onstop handler.
C36_OneLiveRecorder ==
    /\ Cardinality({i \in 1..Len(rec) : Live(i)}) <= 1
    /\ (~isRecording /\ \A i \in 1..Len(rec) : rec[i].mic # "requested") =>
            \A i \in 1..Len(rec) :
                /\ ~Live(i)
                /\ rec[i].mic = "live" => rec[i].onstop = "pending"

\* ---------------------------------------------------------------- C37
\* C37: state.isPaused implies state.isRecording before and after every step;
\* isPaused becomes true only from recording and not paused; a step that
\* clears isPaused either keeps recording (resume, start) or ends it (stop); a
\* start that got its stream leaves isRecording true and isPaused false; and a
\* step that stops the recorder leaves both flags false.
C37_PausedOnlyWhileRecording ==
    [][/\ isPaused => isRecording
       /\ isPaused' => isRecording'
       /\ (~isPaused /\ isPaused') =>
            (isRecording /\ isRecording' /\ recorderState = "recording"
                /\ rec'[TheValue(mediaRecorder)].state = "paused")
       /\ (isPaused /\ ~isPaused' /\ isRecording' /\ mediaRecorder' = mediaRecorder) =>
            (isRecording /\ rec'[TheValue(mediaRecorder)].state = "recording")
       /\ (\E i \in 1..Len(rec) : rec[i].mic = "requested" /\ rec'[i].mic = "live") =>
            (isRecording' /\ ~isPaused')
       /\ (\E i \in 1..Len(rec) : Live(i) /\ rec'[i].state = "inactive") =>
            (~isRecording' /\ ~isPaused')]_vars

\* a recording that was started, paused and stopped, and a later one that is
\* paused now
C37_Witness ==
    /\ isRecording /\ isPaused
    /\ recorderState = "paused"
    /\ \E i \in 1..Len(rec) : rec[i].state = "inactive"

\* ---------------------------------------------------------------- C38
\* the download-model request a click has sent has completed and its reply is
\* not yet handled
Completed(k) ==
    Sent(k) /\ download[k].order # click[k].prev /\ download[k].pc = "returned"

\* C38: once the download-model request sent for a click has completed, with
\* a success or a failure, the download button is eventually enabled with the
\* label 'Download Model'.
C38_ButtonReenabled ==
    \A k \in Slots :
        Completed(k) ~> (~downloadBtn.disabled /\ downloadBtn.text = DownloadLabel)

\* a click whose download was fetched and written, handled to its end: the
\* button is enabled again with its label and no handler is running
C38_Witness ==
    /\ \E k \in Slots :
            /\ download[k].pc = "returned" /\ download[k].fetched
            /\ download[k].reply.success
    /\ \A k \in Slots : click[k].pc = "idle"
    /\ ~downloadBtn.disabled /\ downloadBtn.text = DownloadLabel

====
